---- MODULE Spec2Model ----
(***************************************************************************)
(* Model of the ISO-15765-2 (ISO-TP) engine of caringcaribou:              *)
(* utils/iso15765_2.py, class IsoTp.  Frames are sequences of bytes        *)
(* (1-based here, 0-based in the source), CAN messages are records         *)
(* [arbitration_id, data, is_extended_id].                                 *)
(***************************************************************************)
EXTENDS Integers, Sequences, FiniteSets, TLC

(***************************************************************************)
(* Class constants of IsoTp (iso15765_2.py:14-35) and of utils.constants.   *)
(* The two SF_ constants carry the class name: an identifier cannot start  *)
(* with the strong-fairness token.                                         *)
(***************************************************************************)
MAX_SF_LENGTH == 7
MAX_FF_LENGTH == 6
MAX_CF_LENGTH == 7
IsoTp_SF_PCI_LENGTH == 1
CF_PCI_LENGTH == 1
FF_PCI_LENGTH == 2
FC_PCI_LENGTH == 3
FC_FS_CTS == 0
FC_FS_WAIT == 1
FC_FS_OVFLW == 2
IsoTp_SF_FRAME_ID == 0
FF_FRAME_ID == 1
CF_FRAME_ID == 2
FC_FRAME_ID == 3
MAX_FRAME_LENGTH == 8
MAX_MESSAGE_LENGTH == 4095
\* ARBITRATION_ID_MAX = 0x7FF, the largest standard (11-bit) arbitration ID
ARBITRATION_ID_MAX == 2047
\* The channel of the test suite: ARB_ID_REQUEST = 0x100A, ARB_ID_RESPONSE = 0x100B
ARB_ID_REQUEST == 4106
ARB_ID_RESPONSE == 4107
\* An arbitration ID that belongs to neither endpoint of the channel
ARB_ID_FOREIGN == ARB_ID_RESPONSE + 1

(***************************************************************************)
(* Bounds of the model.                                                    *)
(***************************************************************************)
\* Payload lengths 0..MaxLen are all enumerated (120 bytes = FF + 17 CFs wraps the SN)
MaxLen == 121
\* The longest payload handed to send_request / send_response (FF + 4 CFs)
MaxSendLen == 34
\* Number of bus.recv calls that the environment answers in one transmit or
\* indication call fed with arbitrary frames
MaxRecv == 5

\* The most frames a body sends with CanActions.send / IsoTp.send_message, and
\* the most times send_messages repeats its list
MaxSends == 2

MaxLoops == 1

\* The most messages the notifier dispatches during one XCP dump
MaxXcpRecv == 5

\* The most frames the other nodes send during one XCP arbitration ID discovery
MaxXdFrames == 2

\* The number of entries of XCP_COMMAND_CODES after CONNECT that are modelled
MaxCommands == 2

\* The most frames the other nodes send during one XCP command discovery
MaxCdFrames == 4

\* Python's None, encoded as an integer outside every byte, length and ID range
None == 0 - 1

\* None where the program holds a list, and where it holds a can.Message
NoList == <<None>>

\* A call that has not returned has no return value yet
NotReturned == 0 - 2

NoMessage == [arbitration_id |-> None, data |-> <<>>, is_extended_id |-> FALSE]

(***************************************************************************)
(* Python's integer operators on non-negative integers.                     *)
(***************************************************************************)
RECURSIVE BitAnd(_, _)
BitAnd(a, b) ==
    IF a = 0 \/ b = 0 THEN 0
    ELSE (IF a % 2 = 1 /\ b % 2 = 1 THEN 1 ELSE 0) + 2 * BitAnd(a \div 2, b \div 2)

RECURSIVE BitOr(_, _)
BitOr(a, b) ==
    IF a = 0 THEN b
    ELSE IF b = 0 THEN a
    ELSE (IF a % 2 = 1 \/ b % 2 = 1 THEN 1 ELSE 0) + 2 * BitOr(a \div 2, b \div 2)

ShiftLeft(a, n) == a * (2 ^ n)

ShiftRight(a, n) == a \div (2 ^ n)

Min(a, b) == IF a < b THEN a ELSE b

\* Python slices frame[n:] and message[:n] (n >= 0)
SliceFrom(s, n) == IF n >= Len(s) THEN <<>> ELSE SubSeq(s, n + 1, Len(s))

SliceTo(s, n) == IF n >= Len(s) THEN s ELSE SubSeq(s, 1, n)

(***************************************************************************)
(* Inputs: payloads and padding choices.                                   *)
(***************************************************************************)
\* The payload bytes are a fixed pattern of the length and a seed, so that
\* payloads hold bytes equal to and different from the padding values.
PayloadOf(length, seed) == [i \in 1..length |-> (seed + 37 * i) % 256]

PayloadSeeds == {0, 133}

\* A length whose FF_DL has a non-zero high nibble, the longest legal length, and
\* the first illegal one
LongLengths == {300, MAX_MESSAGE_LENGTH, MAX_MESSAGE_LENGTH + 1}

Payloads == {PayloadOf(l, s) : l \in 0..MaxLen, s \in PayloadSeeds}
            \cup {PayloadOf(l, 133) : l \in LongLengths}

\* padding_value: None (padding disabled) or a byte value
PaddingChoices == {None, 0, 170, 255}

\* The payloads handed to send_request / send_response
SendLengths == {0, 1, MAX_SF_LENGTH, MAX_SF_LENGTH + 1, MaxSendLen - 7, MaxSendLen,
                MAX_MESSAGE_LENGTH + 1}

SendPayloads == {PayloadOf(l, 133) : l \in SendLengths}

SendPaddingChoices == {None, 170}

VARIABLES
    \* arguments of the call under study
    message,            \* the payload handed to get_frames_from_message / send_request
    padding_value,      \* IsoTp.padding_value: None or a byte
    caller,             \* "none", "get_frames_from_message", "send_request", "send_response"
    \* get_frames_from_message
    enc_pc,             \* "idle", "cf_loop", "returned", "raised" (ValueError)
    frame_list,
    bytes_left_to_copy,
    bytes_copied,
    enc_sn,             \* the local sn of get_frames_from_message
    \* transmit
    tx_pc,              \* "idle", "wait_fc", "send_block", "returned"
    frame_index,
    number_of_frames_left_to_send,
    number_of_frames_left_to_send_in_block,
    st_min,
    tx_msg,             \* the last value bus.recv returned to transmit
    tx_sleeps,          \* the arguments (in ms) of the time.sleep calls of transmit
    tx_exit,            \* the statement transmit left through
    tx_result,          \* the value transmit returned (NotReturned before it returns)
    \* indication
    ind_pc,             \* "idle", "loop", "returned", "raised" (TypeError)
    trim_padding,
    first_frame_only,
    ind_message,        \* the local message of indication (None after a short FF)
    ind_sn,             \* the local sn of indication
    message_length,     \* the local message_length of indication
    ind_msg,            \* the last value bus.recv returned to indication
    ind_result,         \* the value indication returned (NoList for None)
    ind_exit,           \* the statement indication left through
    peer_arb_id,        \* the arbitration ID the peer's frame train arrives on
    delivered,          \* number of frames of the peer's train already received
    \* the bus
    bus_sent,           \* every can.Message handed to bus.send, in order
    recv_count          \* number of bus.recv calls made

encVars == <<enc_pc, frame_list, bytes_left_to_copy, bytes_copied, enc_sn>>

txVars == <<tx_pc, frame_index, number_of_frames_left_to_send,
            number_of_frames_left_to_send_in_block, st_min, tx_msg, tx_sleeps,
            tx_exit, tx_result>>

indVars == <<ind_pc, trim_padding, first_frame_only, ind_message, ind_sn, message_length,
             ind_msg, ind_result, ind_exit, peer_arb_id, delivered>>

busVars == <<bus_sent, recv_count>>

VARIABLES
    \* time, in ticks of half a second, for the calls studied with a clock
    now,                \* datetime.datetime.now()
    end_time            \* the local end_time of indication

clockVars == <<now, end_time>>

VARIABLES
    \* the program that holds the bus inside a `with` block
    program,            \* "none", "isotp", "send", "send_messages", "bruteforce",
                        \* "xcp_memory_dump"
    with_pc,            \* "none", "body", "exit", "notifier_stop", "shutdown", "left"
    with_exc,           \* "none", or the exception that ended the body
    \* the CanActions instance
    notifier_enabled,   \* the argument notifier_enabled of CanActions.__init__
    notifier,           \* self.notifier: "None" or "Notifier"
    listeners,          \* self.notifier.listeners
    bus_state,          \* "open", "shutdown"
    self_arb_id,        \* self.arb_id: None or the default arbitration ID
    bruteforce_running,
    send_args,          \* the arguments of the last CanActions.send call of the body
    \* bruteforce_arbitration_id / bruteforce_data
    bf_pc,              \* "idle", "loop", "sleep", "returned", "raised"
    bf_op,              \* the method called
    bf_value,           \* the loop variable (arb_id / value)
    bf_min,
    bf_max,
    bf_data,            \* the list data
    bruteforce_index,
    callback_end,       \* was a callback_end supplied
    callback_end_calls, \* the arguments of the calls of callback_end
    bf_exit,            \* "none", "invalid_range", "stopped", "exhausted"
    stop_mark,          \* len(bus_sent) at the first bruteforce_stop call, or None
    \* send_messages
    messages,
    loop,
    sm_i,               \* the loop variable i
    loop_counter

canVars == <<program, with_pc, with_exc, notifier_enabled, notifier, listeners, bus_state,
             self_arb_id, bruteforce_running, send_args, bf_pc, bf_op, bf_value, bf_min,
             bf_max, bf_data, bruteforce_index, callback_end, callback_end_calls, bf_exit,
             stop_mark, messages, loop, sm_i, loop_counter>>

VARIABLES
    \* xcp_memory_dump
    start_address,      \* the argument start, as base-256 digits (most significant first)
    xcp_length,         \* the argument length
    r,                  \* the address bytes
    bytes_left,
    byte_counter,
    segment_counter,
    idle_timeout,       \* in steps of 0.5 s
    dump_complete,
    xcp_pc,             \* the main thread: "idle", "start", "connect", "loop", "sleep", "store",
                        \* "report", "done"
    xcp_tmp,            \* the value of idle_timeout loaded by `idle_timeout -= 0.5`
    xcp_end,            \* "none", "complete", "idle_timeout"
    xcp_output,         \* the bytes written to the dump, in order
    xcp_errors,         \* number of decode_xcp_error calls
    xcp_msg,            \* the last message the notifier dispatched
    xcp_rx,             \* number of messages dispatched
    slave               \* "nominal": one positive 8-byte reply per request; "any"

xcpVars == <<start_address, xcp_length, r, bytes_left, byte_counter, segment_counter,
             idle_timeout, dump_complete, xcp_pc, xcp_tmp, xcp_end, xcp_output,
             xcp_errors, xcp_msg, xcp_rx, slave>>

VARIABLES
    \* UDS orchestration
    uds_op,             \* "none", "uds_discovery", "service_discovery", "ecu_reset"
    uds_pc,             \* "idle", "probe", "verify", "request", "wait", "received",
                        \* "returned"
    uds_args,           \* min_id, max_id, blacklist, verify
    uds_cur,            \* the client arbitration ID or the SID being probed
    uds_candidates,     \* the response IDs recorded by the probe, awaiting verification
    uds_found,          \* the list being collected
    uds_result,         \* the return value
    uds_log,            \* what the ECU answered to each probe
    uds_response,       \* the response the current exchange hands to its caller
    uds_pending,        \* responsePending answers discarded in the current exchange
    uds_rx,             \* the responses received in the current exchange, in order
    ecu                 \* "mock": the tests' mock ECU; "any"

udsVars == <<uds_op, uds_pc, uds_args, uds_cur, uds_candidates, uds_found, uds_result,
             uds_log, uds_response, uds_pending, uds_rx, ecu>>

VARIABLES
    \* bruteforce_data_new
    bruteforce_indices, \* the argument bruteforce_indices (0-based positions)
    dn_values,          \* the loop variables i of the nested bruteforce(idx) calls
    \* xcp_arbitration_id_discovery
    hit_counter,
    xd_reports,         \* what response_analyser printed: <<kind, arb_id, reply>>
    xd_flight,          \* replies on their way: the frame and the probe that elicited it
    \* xcp_command_discovery
    cd_pc,              \* "idle", "connect", "connect_listener", "connect_wait",
                        \* "command_listener", "command_wait", "clear", "done", "exit"
    cd_index,           \* index into XCP_COMMAND_CODES of the command being probed
    connect_reply,
    command_reply,
    cd_reports,         \* the lines printed: <<cmd_code, supported>>
    cd_waited,          \* seconds spent in the current busy wait
    cd_error,           \* "none", "connect_timeout", "command_timeout"
    rx_thread,          \* "running", or "ended" by an exception of a listener
    xd_seen,            \* the frames handed to the discovery's listener so far
    xd_count            \* number of frames the other nodes have sent so far

dscVars == <<bruteforce_indices, dn_values, hit_counter, xd_reports, xd_flight, cd_pc,
             cd_index, connect_reply, command_reply, cd_reports, cd_waited, cd_error,
             rx_thread, xd_seen, xd_count>>

\* What an ISO-TP call leaves alone, and what a CanActions program leaves alone
appVars == <<canVars, xcpVars, udsVars, dscVars>>

isoTpVars == <<message, padding_value, caller, encVars, txVars, indVars, recv_count,
               clockVars>>

vars == <<message, padding_value, caller, encVars, txVars, indVars, busVars, clockVars,
          appVars>>

(***************************************************************************)
(* get_frames_from_message (iso15765_2.py:338-398).  The CF loop runs one   *)
(* iteration per step.                                                      *)
(***************************************************************************)
\* lines 347-351: padding_enabled, and the byte used to fill new frames
PaddingEnabled(pv) == pv # None

PaddingByte(pv) == IF pv = None THEN 0 ELSE pv

\* [padding_value] * n
NewFrame(pad, n) == [j \in 1..n |-> pad]

\* for i in range(count): frame[offset + i] = message[start + i]   (0-based offsets)
CopyInto(frame, offset, msg, start, count) ==
    [j \in 1..Len(frame) |->
        IF offset < j /\ j <= offset + count THEN msg[start + (j - offset)] ELSE frame[j]]

\* lines 361-367: the Single Frame
SingleFrame(msg, pv) ==
    LET len == Len(msg)
        blank == IF PaddingEnabled(pv) THEN NewFrame(PaddingByte(pv), MAX_FRAME_LENGTH)
                 ELSE NewFrame(PaddingByte(pv), len + 1)
        withPci == [blank EXCEPT ![1] = BitOr(ShiftLeft(IsoTp_SF_FRAME_ID, 4), len)]
    IN  CopyInto(withPci, 1, msg, 0, len)

\* Mutant: the high nibble of FF_DL is left out of the first PCI byte
FirstFrame_LowByteOnly(msg, pv) ==
    LET len == Len(msg)
        blank == NewFrame(PaddingByte(pv), MAX_FRAME_LENGTH)
        withPci == [blank EXCEPT ![1] = ShiftLeft(FF_FRAME_ID, 4),
                                 ![2] = BitAnd(len, 255)]
    IN  CopyInto(withPci, 2, msg, 0, MAX_FF_LENGTH)

\* lines 373-377: the First Frame
FirstFrame(msg, pv) ==
    LET len == Len(msg)
        blank == NewFrame(PaddingByte(pv), MAX_FRAME_LENGTH)
        withPci == [blank EXCEPT ![1] = BitOr(ShiftLeft(FF_FRAME_ID, 4), ShiftRight(len, 8)),
                                 ![2] = BitAnd(len, 255)]
    IN  CopyInto(withPci, 2, msg, 0, MAX_FF_LENGTH)

\* Mutant: the sequence number wraps from 15 to 1, skipping 0
NextSn_WrapToOne(sn) == IF sn = 15 THEN 1 ELSE sn + 1

\* line 384: the sequence number of the next Consecutive Frame
NextSn(sn) == (sn + 1) % 16

\* Mutant: every Consecutive Frame is allocated with the full frame length
ConsecutiveFrameLength_AlwaysFull(pv, left) == MAX_FRAME_LENGTH

\* line 385: the last CF is left short when padding is disabled
ConsecutiveFrameLength(pv, left) ==
    IF ~PaddingEnabled(pv) /\ left < 7 THEN left + 1 ELSE MAX_FRAME_LENGTH

\* lines 385-396: one Consecutive Frame
ConsecutiveFrame(msg, pv, left, copied, sn) ==
    LET blank == NewFrame(PaddingByte(pv), ConsecutiveFrameLength(pv, left))
        withPci == [blank EXCEPT ![1] = BitOr(ShiftLeft(CF_FRAME_ID, 4), sn)]
    IN  CopyInto(withPci, 1, msg, copied, Min(MAX_CF_LENGTH, left))

\* Mutant: the limit is compared off by one
MessageTooLong_OffByOne(length) == length > MAX_MESSAGE_LENGTH + 1

\* line 355: the length check that raises ValueError
MessageTooLong(length) == length > MAX_MESSAGE_LENGTH

\* lines 353-382: the length check, the Single Frame or the First Frame
GetFramesStart ==
    /\ enc_pc = "idle"
    /\ caller # "none"
    /\ IF MessageTooLong(Len(message))
       THEN /\ enc_pc' = "raised"
            /\ UNCHANGED <<frame_list, bytes_left_to_copy, bytes_copied, enc_sn>>
       ELSE IF Len(message) <= MAX_SF_LENGTH
       THEN /\ frame_list' = <<SingleFrame(message, padding_value)>>
            /\ enc_pc' = "returned"
            /\ UNCHANGED <<bytes_left_to_copy, bytes_copied, enc_sn>>
       ELSE /\ frame_list' = <<FirstFrame(message, padding_value)>>
            /\ bytes_copied' = MAX_FF_LENGTH
            /\ bytes_left_to_copy' = Len(message) - MAX_FF_LENGTH
            /\ enc_sn' = 0
            /\ enc_pc' = "cf_loop"
    /\ UNCHANGED <<clockVars, appVars, message, padding_value, caller, txVars, indVars, busVars>>

\* lines 383-398: one iteration of the CF loop, and the return when it was the last
GetFramesLoop ==
    /\ enc_pc = "cf_loop"
    /\ bytes_left_to_copy > 0
    /\ LET sn == NextSn(enc_sn)
           n == Min(MAX_CF_LENGTH, bytes_left_to_copy)
       IN  /\ enc_sn' = sn
           /\ frame_list' = Append(frame_list, ConsecutiveFrame(message, padding_value,
                                        bytes_left_to_copy, bytes_copied, sn))
           /\ bytes_left_to_copy' = bytes_left_to_copy - n
           /\ bytes_copied' = bytes_copied + n
           /\ enc_pc' = IF bytes_left_to_copy - n > 0 THEN "cf_loop" ELSE "returned"
    /\ UNCHANGED <<clockVars, appVars, message, padding_value, caller, txVars, indVars, busVars>>

(***************************************************************************)
(* The bus: bus.send through IsoTp.send_message (iso15765_2.py:93-103).     *)
(***************************************************************************)
\* lines 101-102: the can.Message that send_message builds
CanMessageOf(data, arbitration_id, force_extended) ==
    [arbitration_id |-> arbitration_id,
     data |-> data,
     is_extended_id |-> (force_extended \/ arbitration_id > ARBITRATION_ID_MAX)]

\* line 103: bus.send(msg)
BusAfterSend(sent, data, arbitration_id) ==
    Append(sent, CanMessageOf(data, arbitration_id, FALSE))

(***************************************************************************)
(* Frame decoders and the FC encoder (iso15765_2.py:105-172).  A decoder    *)
(* returns a pair; the first component is None when the frame is too short. *)
(***************************************************************************)
decode_sf(frame) ==
    IF Len(frame) >= IsoTp_SF_PCI_LENGTH
    THEN <<BitAnd(frame[1], 15), SliceFrom(frame, 1)>>
    ELSE <<None, NoList>>

decode_ff(frame) ==
    IF Len(frame) >= FF_PCI_LENGTH
    THEN <<BitOr(ShiftLeft(BitAnd(frame[1], 15), 8), frame[2]), SliceFrom(frame, 2)>>
    ELSE <<None, NoList>>

decode_cf(frame) ==
    IF Len(frame) >= CF_PCI_LENGTH
    THEN <<BitAnd(frame[1], 15), SliceFrom(frame, 1)>>
    ELSE <<None, NoList>>

decode_fc(frame) ==
    IF Len(frame) >= FC_PCI_LENGTH
    THEN <<BitAnd(frame[1], 15), frame[2], frame[3]>>
    ELSE <<None, None, None>>

encode_fc(flow_status, block_size, st_min_value) ==
    <<BitOr(ShiftLeft(FC_FRAME_ID, 4), flow_status), block_size, st_min_value, 0, 0, 0, 0, 0>>

\* line 228: frame_type = (frame[0] >> 4) & 0xF
FrameType(frame) == BitAnd(ShiftRight(frame[1], 4), 15)

(***************************************************************************)
(* indication (iso15765_2.py:192-269).  One step per bus.recv call.  The    *)
(* locals of the call are the record                                        *)
(*   [pc, message, sn, message_length, result, exit, sent]                  *)
(* where sent is the bus's log of sent messages.                            *)
(***************************************************************************)
\* The IsoTp instance of the test suite (test_iso_15765_2.py:25)
arb_id_request == ARB_ID_REQUEST

arb_id_response == ARB_ID_RESPONSE

\* Mutant: the flow control goes back on the arbitration ID the frame came on
FlowControlArbitrationId_Same(arbitration_id) ==
    IF arbitration_id = arb_id_request THEN arb_id_request
    ELSE IF arbitration_id = arb_id_response THEN arb_id_response
    ELSE None

\* Mutant: a frame on an unknown arbitration ID is handled like a request
FlowControlArbitrationId_NoFilter(arbitration_id) ==
    IF arbitration_id = arb_id_response THEN arb_id_request ELSE arb_id_response

\* lines 219-225: where a flow control goes; None for an unknown arbitration ID
FlowControlArbitrationId(arbitration_id) ==
    IF arbitration_id = arb_id_request THEN arb_id_response
    ELSE IF arbitration_id = arb_id_response THEN arb_id_request
    ELSE None

\* line 269: return list(message); list(None) raises TypeError
ReturnMessage(st, msg_value, how) ==
    IF msg_value = NoList
    THEN [st EXCEPT !.pc = "raised", !.message = msg_value, !.exit = "TypeError"]
    ELSE [st EXCEPT !.pc = "returned", !.message = msg_value, !.result = msg_value,
                    !.exit = how]

\* lines 229-235: Single Frame
OnSingleFrame(st, frame, trim) ==
    LET dl == decode_sf(frame)[1]
        data == decode_sf(frame)[2]
    IN  ReturnMessage(st, IF trim THEN SliceTo(data, dl) ELSE data, "single_frame")

\* Mutant: first_frame_only is not looked at
OnFirstFrame_Always(st, frame, ffo, flow_control_arbitration_id) ==
    [st EXCEPT !.message_length = decode_ff(frame)[1],
               !.message = decode_ff(frame)[2],
               !.sn = 0,
               !.sent = BusAfterSend(st.sent, encode_fc(FC_FS_CTS, 0, 0),
                                     flow_control_arbitration_id)]

\* lines 236-250: First Frame
OnFirstFrame(st, frame, ffo, flow_control_arbitration_id) ==
    LET ff_dl == decode_ff(frame)[1]
        data == decode_ff(frame)[2]
        got == [st EXCEPT !.message_length = ff_dl, !.message = data]
    IN  IF ffo
        THEN ReturnMessage(
                 [got EXCEPT !.sent = BusAfterSend(st.sent, encode_fc(FC_FS_OVFLW, 0, 0),
                                                   flow_control_arbitration_id)],
                 data, "first_frame_only")
        ELSE [got EXCEPT !.sn = 0,
                         !.sent = BusAfterSend(st.sent, encode_fc(FC_FS_CTS, 0, 0),
                                               flow_control_arbitration_id)]

\* Mutant: the expected sequence number does not wrap modulo 16
SnMatches_NoWrap(sn, new_sn) == sn + 1 = new_sn

\* line 254: is this the Consecutive Frame that is expected next
SnMatches(sn, new_sn) == (sn + 1) % 16 = new_sn

\* line 257: was that the last frame
MessageComplete(msg_value, length) == Len(msg_value) >= length

\* lines 251-265: Consecutive Frame; message += data raises TypeError on None
OnConsecutiveFrame(st, frame, trim) ==
    LET new_sn == decode_cf(frame)[1]
        data == decode_cf(frame)[2]
    IN  IF SnMatches(st.sn, new_sn)
        THEN IF st.message = NoList
             THEN [st EXCEPT !.pc = "raised", !.sn = new_sn, !.exit = "TypeError"]
             ELSE LET joined == st.message \o data
                  IN  IF MessageComplete(joined, st.message_length)
                      THEN ReturnMessage([st EXCEPT !.sn = new_sn],
                                         IF trim THEN SliceTo(joined, st.message_length)
                                         ELSE joined,
                                         "last_frame")
                      ELSE [st EXCEPT !.sn = new_sn, !.message = joined]
        ELSE st

\* lines 266-268: any other frame type
OnOtherFrame(st) == [st EXCEPT !.pc = "returned", !.result = NoList, !.exit = "invalid_frame_type"]

\* lines 218-268: what one received message does to the call
IndicationStep(st, msg, trim, ffo) ==
    LET flow_control_arbitration_id == FlowControlArbitrationId(msg.arbitration_id)
        frame == msg.data
    IN  IF flow_control_arbitration_id = None THEN st
        ELSE IF Len(frame) = 0 THEN st
        ELSE IF FrameType(frame) = IsoTp_SF_FRAME_ID THEN OnSingleFrame(st, frame, trim)
        ELSE IF FrameType(frame) = FF_FRAME_ID
             THEN OnFirstFrame(st, frame, ffo, flow_control_arbitration_id)
        ELSE IF FrameType(frame) = CF_FRAME_ID THEN OnConsecutiveFrame(st, frame, trim)
        ELSE OnOtherFrame(st)

IndicationLocals ==
    [pc |-> ind_pc, message |-> ind_message, sn |-> ind_sn,
     message_length |-> message_length, result |-> ind_result, exit |-> ind_exit,
     sent |-> bus_sent]

\* lines 201-208: the call, with its keyword arguments
IndicationEnter(trim, ffo) ==
    /\ ind_pc = "idle"
    /\ tx_pc \in {"idle", "returned"}
    /\ ind_pc' = "loop"
    /\ trim_padding' = trim
    /\ first_frame_only' = ffo
    /\ ind_message' = <<>>
    /\ ind_sn' = 0
    /\ message_length' = 0
    /\ UNCHANGED <<ind_msg, ind_result, ind_exit, peer_arb_id, delivered>>
    /\ UNCHANGED <<appVars, message, padding_value, caller, encVars, txVars, busVars>>

\* indication() with the default arguments, as the test suite calls it, on a
\* channel where the peer's Single Frame or frame train is about to arrive
IndicationCallDefault ==
    /\ enc_pc = "returned"
    /\ caller = "get_frames_from_message"
    /\ IndicationEnter(TRUE, FALSE)
    /\ UNCHANGED clockVars

\* indication(trim_padding=..., first_frame_only=...)
IndicationCall ==
    /\ caller = "none"
    /\ \E trim \in BOOLEAN, ffo \in BOOLEAN : IndicationEnter(trim, ffo)
    /\ UNCHANGED clockVars

\* lines 214-215: return None
IndicationTimeoutReturn ==
    /\ ind_pc = "loop"
    /\ ind_pc' = "returned"
    /\ ind_result' = NoList
    /\ ind_exit' = "timeout"
    /\ UNCHANGED <<trim_padding, first_frame_only, ind_message, ind_sn, message_length,
                   ind_msg, peer_arb_id, delivered>>
    /\ UNCHANGED <<appVars, message, padding_value, caller, encVars, txVars, busVars>>

\* lines 212-215: the wait window has elapsed when the loop comes round, at a
\* time that is left open
IndicationTimeout ==
    /\ IndicationTimeoutReturn
    /\ UNCHANGED clockVars

\* lines 217-268 for the message msg that bus.recv returned
IndicationReceive(msg) ==
    LET st == IndicationStep(IndicationLocals, msg, trim_padding, first_frame_only)
    IN  /\ ind_pc' = st.pc
        /\ ind_message' = st.message
        /\ ind_sn' = st.sn
        /\ message_length' = st.message_length
        /\ ind_result' = st.result
        /\ ind_exit' = st.exit
        /\ bus_sent' = st.sent
        /\ ind_msg' = msg
        /\ recv_count' = recv_count + 1
        /\ UNCHANGED <<trim_padding, first_frame_only, peer_arb_id>>
        /\ UNCHANGED <<appVars, message, padding_value, caller, encVars, txVars>>

\* bus.recv returns the next frame of the train that the peer produced with
\* get_frames_from_message, on the peer's arbitration ID
IndicationRecvTrain ==
    /\ ind_pc = "loop"
    /\ enc_pc = "returned"
    /\ delivered < Len(frame_list)
    /\ delivered' = delivered + 1
    /\ IndicationReceive(CanMessageOf(frame_list[delivered + 1], peer_arb_id, FALSE))
    /\ UNCHANGED clockVars

(***************************************************************************)
(* send_request, send_response (iso15765_2.py:174-190) and transmit         *)
(* (iso15765_2.py:271-336).  The caller's get_frames_from_message runs      *)
(* first (GetFramesStart, GetFramesLoop); a ValueError it raises leaves     *)
(* send_request before transmit is called.  transmit takes one step per     *)
(* bus.recv call and one per Consecutive Frame sent.                        *)
(***************************************************************************)
\* lines 181, 190: the arguments arbitration_id and arbitration_id_flow_control
TransmitArbitrationId(who) ==
    IF who = "send_request" THEN arb_id_request ELSE arb_id_response

TransmitFlowControlId(who) ==
    IF who = "send_request" THEN arb_id_response ELSE arb_id_request

\* lines 279-293: an empty list, a single frame, or the First Frame of several
TransmitStart ==
    /\ caller \in {"send_request", "send_response"}
    /\ enc_pc = "returned"
    /\ tx_pc = "idle"
    /\ IF Len(frame_list) = 0
       THEN /\ tx_pc' = "returned"
            /\ tx_exit' = "no_frames"
            /\ tx_result' = None
            /\ UNCHANGED <<frame_index, number_of_frames_left_to_send,
                           number_of_frames_left_to_send_in_block, st_min, bus_sent>>
       ELSE IF Len(frame_list) = 1
       THEN /\ bus_sent' = BusAfterSend(bus_sent, frame_list[1], TransmitArbitrationId(caller))
            /\ tx_pc' = "returned"
            /\ tx_exit' = "single_frame"
            /\ tx_result' = None
            /\ UNCHANGED <<frame_index, number_of_frames_left_to_send,
                           number_of_frames_left_to_send_in_block, st_min>>
       ELSE /\ bus_sent' = BusAfterSend(bus_sent, frame_list[1], TransmitArbitrationId(caller))
            /\ number_of_frames_left_to_send' = Len(frame_list) - 1
            /\ number_of_frames_left_to_send_in_block' = 0
            /\ frame_index' = 1
            /\ st_min' = 0
            /\ tx_pc' = "wait_fc"
            /\ UNCHANGED <<tx_exit, tx_result>>
    /\ UNCHANGED <<tx_msg, tx_sleeps, recv_count>>
    /\ UNCHANGED <<clockVars, appVars, message, padding_value, caller, encVars, indVars>>

\* lines 315-318: the number of frames of the block that a CTS releases
BlockLength(block_size, left) ==
    IF left < block_size \/ block_size = 0 THEN left ELSE block_size

\* Mutant: the STmin byte is used as it came, also above 0x7F
NormalizedStMin_NoRounding(st) == st

\* lines 321-322: STmin above 0x7F is rounded to one millisecond
NormalizedStMin(st) == IF st > 127 THEN 1 ELSE st

\* Mutant: a Wait releases a block as CTS does
FlowStatusBranch_WaitSends(fs) ==
    IF fs = FC_FS_WAIT \/ fs = FC_FS_CTS THEN "cts"
    ELSE IF fs = FC_FS_OVFLW THEN "overflow"
    ELSE "unexpected_flow_status"

\* Mutant: only Wait and Overflow are told apart, every other status sends on
FlowStatusBranch_ElseCts(fs) ==
    IF fs = FC_FS_WAIT THEN "wait"
    ELSE IF fs = FC_FS_OVFLW THEN "overflow"
    ELSE "cts"

\* lines 309-328: the branch that the decoded flow status selects
FlowStatusBranch(fs) ==
    IF fs = FC_FS_WAIT THEN "wait"
    ELSE IF fs = FC_FS_CTS THEN "cts"
    ELSE IF fs = FC_FS_OVFLW THEN "overflow"
    ELSE "unexpected_flow_status"

\* lines 298-301: bus.recv(N_BS_TIMEOUT) returns None
TransmitRecvNone ==
    /\ tx_pc = "wait_fc"
    /\ tx_msg' = NoMessage
    /\ recv_count' = recv_count + 1
    /\ tx_pc' = "returned"
    /\ tx_exit' = "recv_timeout"
    /\ tx_result' = None
    /\ UNCHANGED <<frame_index, number_of_frames_left_to_send,
                   number_of_frames_left_to_send_in_block, st_min, tx_sleeps, bus_sent>>
    /\ UNCHANGED <<clockVars, appVars, message, padding_value, caller, encVars, indVars>>

\* lines 302-328: what transmit does with the msg that bus.recv returned
TransmitHandle(msg) ==
    /\ tx_pc = "wait_fc"
    /\ tx_msg' = msg
    /\ IF msg.arbitration_id # TransmitFlowControlId(caller)
       THEN UNCHANGED <<tx_pc, tx_exit, tx_result, st_min,
                        number_of_frames_left_to_send_in_block>>
       ELSE LET fs == decode_fc(msg.data)[1]
                block_size == decode_fc(msg.data)[2]
                new_st_min == decode_fc(msg.data)[3]
                branch == FlowStatusBranch(fs)
            IN  IF branch = "wait"
                THEN /\ st_min' = new_st_min
                     /\ UNCHANGED <<tx_pc, tx_exit, tx_result,
                                    number_of_frames_left_to_send_in_block>>
                ELSE IF branch = "cts"
                THEN /\ number_of_frames_left_to_send_in_block' =
                            BlockLength(block_size, number_of_frames_left_to_send)
                     /\ st_min' = NormalizedStMin(new_st_min)
                     /\ tx_pc' = "send_block"
                     /\ UNCHANGED <<tx_exit, tx_result>>
                ELSE /\ st_min' = new_st_min
                     /\ tx_pc' = "returned"
                     /\ tx_exit' = branch
                     /\ tx_result' = None
                     /\ UNCHANGED number_of_frames_left_to_send_in_block
    /\ UNCHANGED <<frame_index, number_of_frames_left_to_send, tx_sleeps, bus_sent>>
    /\ UNCHANGED <<clockVars, appVars, message, padding_value, caller, encVars, indVars>>

\* lines 298-328: bus.recv(N_BS_TIMEOUT) returns msg
TransmitReceive(msg) ==
    /\ TransmitHandle(msg)
    /\ recv_count' = recv_count + 1

\* lines 329-336: one Consecutive Frame of the block, and the sleep after it
TransmitSendFrame ==
    /\ tx_pc = "send_block"
    /\ number_of_frames_left_to_send_in_block > 0
    /\ bus_sent' = BusAfterSend(bus_sent, frame_list[frame_index + 1],
                                TransmitArbitrationId(caller))
    /\ frame_index' = frame_index + 1
    /\ number_of_frames_left_to_send_in_block' = number_of_frames_left_to_send_in_block - 1
    /\ number_of_frames_left_to_send' = number_of_frames_left_to_send - 1
    /\ tx_sleeps' = IF number_of_frames_left_to_send_in_block - 1 > 0
                    THEN Append(tx_sleeps, st_min) ELSE tx_sleeps
    /\ IF number_of_frames_left_to_send_in_block - 1 > 0
       THEN UNCHANGED <<tx_pc, tx_exit, tx_result>>
       ELSE IF number_of_frames_left_to_send - 1 > 0
       THEN tx_pc' = "wait_fc" /\ UNCHANGED <<tx_exit, tx_result>>
       ELSE tx_pc' = "returned" /\ tx_exit' = "complete" /\ tx_result' = None
    /\ UNCHANGED <<st_min, tx_msg, recv_count>>
    /\ UNCHANGED <<clockVars, appVars, message, padding_value, caller, encVars, indVars>>

(***************************************************************************)
(* The environment: what bus.recv may return.                               *)
(***************************************************************************)
ChannelIds == {arb_id_request, arb_id_response, ARB_ID_FOREIGN}

\* STmin bytes: both ends of the millisecond range and of the range above it
StMinValues == {0, 127, 128, 255}

\* Flow control frames with FS in CTS, Wait, Overflow and a reserved value, a
\* First Frame (low nibble 0), a frame shorter than the FC PCI, a Consecutive Frame
TransmitFrames ==
    {encode_fc(fs, bs, st) : fs \in {FC_FS_CTS, FC_FS_WAIT}, bs \in {0, 1, 2},
                             st \in StMinValues}
    \cup {encode_fc(fs, 0, 0) : fs \in {FC_FS_OVFLW, 3}}
    \cup {<<16, 20, 1, 2, 3, 4, 5, 6>>, <<48, 0>>, <<33, 1, 2, 3, 4, 5, 6, 7>>}

TransmitInputs == {CanMessageOf(f, id, FALSE) : f \in TransmitFrames, id \in ChannelIds}

\* Single Frames (padded and not), First Frames (FF_DL = 20, and one shorter than
\* its PCI), Consecutive Frames with SN 1, 2, 3, flow controls, a frame of unknown
\* type and an empty frame
IndicationFrames ==
    {<<3, 17, 34, 51, 0, 0, 0, 0>>, <<2, 17, 34>>,
     <<16, 20, 1, 2, 3, 4, 5, 6>>, <<16>>,
     <<33, 7, 8, 9, 10, 11, 12, 13>>, <<34, 14, 15, 16, 17, 18, 19, 20>>,
     <<35, 21, 22, 23, 24, 25, 26, 27>>,
     encode_fc(FC_FS_CTS, 0, 0), encode_fc(FC_FS_OVFLW, 0, 0),
     <<64, 1>>, <<>>}

IndicationInputs == {CanMessageOf(f, id, FALSE) : f \in IndicationFrames, id \in ChannelIds}

\* bus.recv hands transmit a frame of the environment
TransmitRecv ==
    /\ recv_count < MaxRecv
    /\ \E msg \in TransmitInputs : TransmitReceive(msg)

\* bus.recv hands transmit a further frame after MaxRecv calls; the count of
\* calls stays at MaxRecv
TransmitRecvOn ==
    /\ recv_count = MaxRecv
    /\ \E msg \in TransmitInputs : TransmitHandle(msg)
    /\ UNCHANGED recv_count

\* bus.recv hands indication a frame of the environment
IndicationRecv ==
    /\ ind_pc = "loop"
    /\ recv_count < MaxRecv
    /\ \E msg \in IndicationInputs :
           IndicationReceive(msg) /\ UNCHANGED delivered
    /\ UNCHANGED clockVars

\* line 217-218: bus.recv(wait_window) returns None and the loop comes round
IndicationReceiveNone ==
    /\ ind_pc = "loop"
    /\ ind_msg' = NoMessage
    /\ recv_count' = recv_count + 1
    /\ UNCHANGED <<ind_pc, trim_padding, first_frame_only, ind_message, ind_sn,
                   message_length, ind_result, ind_exit, peer_arb_id, delivered, bus_sent>>
    /\ UNCHANGED <<appVars, message, padding_value, caller, encVars, txVars>>

IndicationRecvNone ==
    /\ recv_count < MaxRecv
    /\ IndicationReceiveNone
    /\ UNCHANGED clockVars

\* The wait window N_BS_TIMEOUT in ticks
WAIT_WINDOW == 3

\* Mutant: every received frame moves the deadline
EndTimeAfterRecv_Restarted(end, current) == current + WAIT_WINDOW

\* lines 206, 210-217: end_time is computed once, before the loop
EndTimeAfterRecv(end, current) == end

\* lines 203-208: the call, at the time now
IndicationCallAt ==
    /\ caller = "none"
    /\ \E trim \in BOOLEAN, ffo \in BOOLEAN : IndicationEnter(trim, ffo)
    /\ end_time' = now + WAIT_WINDOW
    /\ UNCHANGED now

\* lines 212-215: current_time >= end_time when the loop comes round
IndicationTimeoutAt ==
    /\ now >= end_time
    /\ IndicationTimeoutReturn
    /\ UNCHANGED clockVars

\* lines 212-217: the loop comes round in time and bus.recv(wait_window) returns
\* a frame after elapsed ticks, before its timeout
IndicationRecvAt ==
    /\ ind_pc = "loop"
    /\ now < end_time
    /\ \E msg \in IndicationInputs, elapsed \in 1..(WAIT_WINDOW - 1) :
           /\ IndicationReceive(msg)
           /\ now' = now + elapsed
           /\ end_time' = EndTimeAfterRecv(end_time, now + elapsed)
    /\ UNCHANGED delivered

\* lines 212-218: the loop comes round in time and bus.recv(wait_window) returns
\* None after wait_window
IndicationRecvNoneAt ==
    /\ now < end_time
    /\ IndicationReceiveNone
    /\ now' = now + WAIT_WINDOW
    /\ UNCHANGED end_time

(***************************************************************************)
(* CanActions (can_actions.py:69-271), the CanMessage wrapper and           *)
(* send_messages of the send module (send.py:14-39, 176-194), and the       *)
(* `with` blocks that hold a CanActions or an IsoTp instance.  An           *)
(* is_extended argument is None (unspecified), 0 (False) or 1 (True).       *)
(***************************************************************************)
\* can_actions.py lines 137-143: the exception CanActions.send raises, if any
SendRaises_OffByOne(data, arb_id, default_arb_id) ==
    IF Len(data) > MAX_FRAME_LENGTH + 1 THEN "IndexError"
    ELSE IF arb_id = None /\ default_arb_id = None THEN "ValueError"
    ELSE "none"

SendRaises(data, arb_id, default_arb_id) ==
    IF Len(data) > MAX_FRAME_LENGTH THEN "IndexError"
    ELSE IF arb_id = None /\ default_arb_id = None THEN "ValueError"
    ELSE "none"

\* can_actions.py lines 140-151: the can.Message that CanActions.send builds
SendMessage(data, arb_id, is_extended, default_arb_id) ==
    LET id == IF arb_id = None THEN default_arb_id ELSE arb_id
    IN  [arbitration_id |-> id,
         data |-> data,
         is_extended_id |-> IF is_extended = None THEN id > ARBITRATION_ID_MAX
                            ELSE is_extended = 1]

\* send.py lines 30-39: CanMessage.__init__
CanMessage(arb_id, data, delay, is_extended) ==
    [arb_id |-> arb_id,
     data |-> data,
     delay |-> IF delay < 0 THEN 0 ELSE delay,
     is_extended |-> IF is_extended = None
                     THEN (IF arb_id > ARBITRATION_ID_MAX THEN 1 ELSE 0)
                     ELSE is_extended]

\* Arguments: payloads of 0, 8 and 9 bytes; arbitration IDs on both sides of 0x7FF
DataChoices == {<<>>, <<1, 2, 3, 4, 5, 6, 7, 8>>, <<1, 2, 3, 4, 5, 6, 7, 8, 9>>}

ArbIdChoices == {ARBITRATION_ID_MAX, ARBITRATION_ID_MAX + 1}

IsExtendedChoices == {None, 0, 1}

\* The message lists handed to send_messages: one or two parsed messages
MessageChoices ==
    {CanMessage(id, <<17, 34>>, 0, ext) : id \in ArbIdChoices, ext \in IsExtendedChoices}

MessageLists ==
    {<<m>> : m \in MessageChoices} \cup {<<m, n>> : m \in MessageChoices, n \in MessageChoices}

\* Sweeps: [min, max] with several values, with one value, and with min > max
ArbIdRanges ==
    {<<ARBITRATION_ID_MAX - 1, ARBITRATION_ID_MAX + 2>>,
     <<ARBITRATION_ID_MAX + 1, ARBITRATION_ID_MAX + 1>>,
     <<ARBITRATION_ID_MAX + 2, ARBITRATION_ID_MAX>>}

ValueRanges == {<<0, 2>>, <<255, 255>>, <<3, 2>>}

\* The body's CanActions.send call raised: the exception leaves the with block
BodyRaises(exception) ==
    /\ with_pc' = "exit"
    /\ with_exc' = exception

\* can_actions.py lines 128-152: a CanActions.send call in the body of the block
CanActionsSend ==
    /\ program = "send"
    /\ with_pc = "body"
    /\ Len(bus_sent) < MaxSends
    /\ \E data \in DataChoices, arb_id \in ArbIdChoices \cup {None},
          is_extended \in IsExtendedChoices :
          /\ send_args' = <<data, arb_id, is_extended>>
          /\ IF SendRaises(data, arb_id, self_arb_id) = "none"
             THEN /\ bus_sent' = Append(bus_sent,
                                        SendMessage(data, arb_id, is_extended, self_arb_id))
                  /\ UNCHANGED <<with_pc, with_exc>>
             ELSE /\ BodyRaises(SendRaises(data, arb_id, self_arb_id))
                  /\ UNCHANGED bus_sent
    /\ UNCHANGED <<program, notifier_enabled, notifier, listeners, bus_state, self_arb_id,
                   bruteforce_running, bf_pc, bf_op, bf_value, bf_min, bf_max, bf_data,
                   bruteforce_index, callback_end, callback_end_calls, bf_exit, stop_mark,
                   messages, loop, sm_i, loop_counter>>
    /\ UNCHANGED <<isoTpVars, xcpVars, udsVars, dscVars>>

\* send.py lines 185-194: one turn of the loops of send_messages
SendMessagesStep ==
    /\ program = "send_messages"
    /\ with_pc = "body"
    /\ IF sm_i < Len(messages)
       THEN LET msg == messages[sm_i + 1]
            IN  /\ send_args' = <<msg.data, msg.arb_id, msg.is_extended>>
                /\ sm_i' = sm_i + 1
                /\ IF SendRaises(msg.data, msg.arb_id, self_arb_id) = "none"
                   THEN /\ bus_sent' = Append(bus_sent,
                                              SendMessage(msg.data, msg.arb_id,
                                                          msg.is_extended, self_arb_id))
                        /\ UNCHANGED <<with_pc, with_exc>>
                   ELSE /\ BodyRaises(SendRaises(msg.data, msg.arb_id, self_arb_id))
                        /\ UNCHANGED bus_sent
                /\ UNCHANGED loop_counter
       ELSE IF ~loop
       THEN /\ with_pc' = "exit"
            /\ UNCHANGED <<with_exc, send_args, sm_i, loop_counter, bus_sent>>
       ELSE /\ loop_counter < MaxLoops
            /\ loop_counter' = loop_counter + 1
            /\ sm_i' = 0
            /\ UNCHANGED <<with_pc, with_exc, send_args, bus_sent>>
    /\ UNCHANGED <<program, notifier_enabled, notifier, listeners, bus_state, self_arb_id,
                   bruteforce_running, bf_pc, bf_op, bf_value, bf_min, bf_max, bf_data,
                   bruteforce_index, callback_end, callback_end_calls, bf_exit, stop_mark,
                   messages, loop>>
    /\ UNCHANGED <<isoTpVars, xcpVars, udsVars, dscVars>>

\* iso15765_2.py lines 93-103: an IsoTp.send_message call in the body of the block
IsoTpSendMessage ==
    /\ program = "isotp"
    /\ with_pc = "body"
    /\ Len(bus_sent) < MaxSends
    /\ \E arbitration_id \in ArbIdChoices, force_extended \in BOOLEAN :
          bus_sent' = Append(bus_sent,
                             CanMessageOf(<<2, 16, 1>>, arbitration_id, force_extended))
    /\ UNCHANGED <<canVars, isoTpVars, xcpVars, udsVars, dscVars>>

\* Mutant: the flag set by bruteforce_stop is not looked at
StopRequested_Never(running) == FALSE

\* can_actions.py lines 190, 215: if not self.bruteforce_running
StopRequested(running) == ~running

\* can_actions.py lines 164-179 and 209: the call, up to the loop.  min_id and max_id
\* are given (the defaults of lines 165-172 are not used)
BruteforceCall ==
    /\ program = "bruteforce"
    /\ with_pc = "body"
    /\ bf_pc = "idle"
    /\ \E op \in {"bruteforce_arbitration_id", "bruteforce_data"}, cb \in BOOLEAN,
          index \in {0, 2} :
          \E range \in IF op = "bruteforce_arbitration_id" THEN ArbIdRanges
                       ELSE ValueRanges :
             /\ bf_op' = op
             /\ callback_end' = cb
             /\ bruteforce_index' = index
             /\ bf_min' = range[1]
             /\ bf_max' = range[2]
             /\ bf_data' = <<2, 16, 1>>
             /\ IF op = "bruteforce_arbitration_id" /\ range[1] > range[2]
                THEN /\ callback_end_calls' =
                            IF cb THEN <<"Invalid range: min > max">> ELSE <<>>
                     /\ bf_pc' = "returned"
                     /\ bf_exit' = "invalid_range"
                     /\ UNCHANGED <<bruteforce_running, bf_value>>
                ELSE /\ bruteforce_running' = TRUE
                     /\ bf_value' = range[1]
                     /\ bf_pc' = "loop"
                     /\ UNCHANGED <<callback_end_calls, bf_exit>>
    /\ UNCHANGED <<program, with_pc, with_exc, notifier_enabled, notifier, listeners,
                   bus_state, self_arb_id, send_args, stop_mark, messages, loop, sm_i,
                   loop_counter>>
    /\ UNCHANGED <<isoTpVars, xcpVars, udsVars, dscVars, bus_sent>>

\* can_actions.py lines 180-187 and 210-213: the next value of the range gets its
\* listener and its frame; lines 193-196 and 218-220 when the range is exhausted
BruteforceLoop ==
    /\ with_pc = "body"
    /\ bf_pc = "loop"
    /\ IF bf_value > bf_max
       THEN /\ bf_pc' = "returned"
            /\ bf_exit' = "exhausted"
            /\ IF callback_end
               THEN /\ listeners' = <<>>
                    /\ callback_end_calls' = Append(callback_end_calls, "completed")
               ELSE UNCHANGED <<listeners, callback_end_calls>>
            /\ UNCHANGED <<bf_data, send_args, bus_sent, with_pc, with_exc>>
       ELSE IF bf_op = "bruteforce_arbitration_id"
       THEN /\ listeners' = <<bf_value>>
            /\ bus_sent' = Append(bus_sent,
                                  [arbitration_id |-> bf_value,
                                   data |-> bf_data,
                                   is_extended_id |-> bf_value > ARBITRATION_ID_MAX])
            /\ bf_pc' = "sleep"
            /\ UNCHANGED <<bf_data, send_args, bf_exit, callback_end_calls, with_pc,
                           with_exc>>
       ELSE LET data == [bf_data EXCEPT ![bruteforce_index + 1] = bf_value]
            IN  /\ listeners' = <<bf_value>>
                /\ bf_data' = data
                /\ send_args' = <<data, None, None>>
                /\ IF SendRaises(data, None, self_arb_id) = "none"
                   THEN /\ bus_sent' = Append(bus_sent,
                                              SendMessage(data, None, None, self_arb_id))
                        /\ bf_pc' = "sleep"
                        /\ UNCHANGED <<with_pc, with_exc>>
                   ELSE /\ BodyRaises(SendRaises(data, None, self_arb_id))
                        /\ bf_pc' = "raised"
                        /\ UNCHANGED bus_sent
                /\ UNCHANGED <<bf_exit, callback_end_calls>>
    /\ UNCHANGED <<program, notifier_enabled, notifier, bus_state, self_arb_id,
                   bruteforce_running, bf_op, bf_value, bf_min, bf_max, bruteforce_index,
                   callback_end, stop_mark, messages, loop, sm_i, loop_counter>>
    /\ UNCHANGED <<isoTpVars, xcpVars, udsVars, dscVars>>

\* Mutant: the loop steps over every other value
BruteforceCheck_SkipsOne ==
    /\ with_pc = "body"
    /\ bf_pc = "sleep"
    /\ IF StopRequested(bruteforce_running)
       THEN /\ listeners' = <<>>
            /\ bf_pc' = "returned"
            /\ bf_exit' = "stopped"
            /\ UNCHANGED bf_value
       ELSE /\ bf_value' = bf_value + 2
            /\ bf_pc' = "loop"
            /\ UNCHANGED <<listeners, bf_exit>>
    /\ UNCHANGED <<program, with_pc, with_exc, notifier_enabled, notifier, bus_state,
                   self_arb_id, bruteforce_running, send_args, bf_op, bf_min, bf_max,
                   bf_data, bruteforce_index, callback_end, callback_end_calls, stop_mark,
                   messages, loop, sm_i, loop_counter>>
    /\ UNCHANGED <<isoTpVars, xcpVars, udsVars, dscVars, bus_sent>>

\* can_actions.py lines 188-192 and 214-217: after the sleep, the stop flag is read
BruteforceCheck ==
    /\ with_pc = "body"
    /\ bf_pc = "sleep"
    /\ IF StopRequested(bruteforce_running)
       THEN /\ listeners' = <<>>
            /\ bf_pc' = "returned"
            /\ bf_exit' = "stopped"
            /\ UNCHANGED bf_value
       ELSE /\ bf_value' = bf_value + 1
            /\ bf_pc' = "loop"
            /\ UNCHANGED <<listeners, bf_exit>>
    /\ UNCHANGED <<program, with_pc, with_exc, notifier_enabled, notifier, bus_state,
                   self_arb_id, bruteforce_running, send_args, bf_op, bf_min, bf_max,
                   bf_data, bruteforce_index, callback_end, callback_end_calls, stop_mark,
                   messages, loop, sm_i, loop_counter>>
    /\ UNCHANGED <<isoTpVars, xcpVars, udsVars, dscVars, bus_sent>>

\* can_actions.py lines 269-271: bruteforce_stop, called by a listener or another
\* thread while the loop runs
BruteforceStop ==
    /\ with_pc = "body"
    /\ bf_pc \in {"loop", "sleep"}
    /\ bruteforce_running
    /\ bruteforce_running' = FALSE
    /\ stop_mark' = Len(bus_sent)
    /\ UNCHANGED <<program, with_pc, with_exc, notifier_enabled, notifier, listeners,
                   bus_state, self_arb_id, send_args, bf_pc, bf_op, bf_value, bf_min,
                   bf_max, bf_data, bruteforce_index, callback_end, callback_end_calls,
                   bf_exit, messages, loop, sm_i, loop_counter>>
    /\ UNCHANGED <<isoTpVars, xcpVars, udsVars, dscVars, bus_sent>>

\* The body of the with block ends by falling off its end
BodyReturn ==
    /\ with_pc = "body"
    /\ \/ program \in {"isotp", "send"}
       \/ program = "bruteforce" /\ bf_pc = "returned"
    /\ with_pc' = "exit"
    /\ UNCHANGED <<program, with_exc, notifier_enabled, notifier, listeners, bus_state,
                   self_arb_id, bruteforce_running, send_args, bf_pc, bf_op, bf_value,
                   bf_min, bf_max, bf_data, bruteforce_index, callback_end,
                   callback_end_calls, bf_exit, stop_mark, messages, loop, sm_i,
                   loop_counter>>
    /\ UNCHANGED <<isoTpVars, xcpVars, udsVars, dscVars, bus_sent>>

\* The body of the with block is interrupted (KeyboardInterrupt) wherever it is
BodyInterrupt ==
    /\ with_pc = "body"
    /\ BodyRaises("KeyboardInterrupt")
    /\ bf_pc' = IF bf_pc \in {"loop", "sleep"} THEN "raised" ELSE bf_pc
    /\ UNCHANGED <<program, notifier_enabled, notifier, listeners, bus_state, self_arb_id,
                   bruteforce_running, send_args, bf_op, bf_value, bf_min, bf_max, bf_data,
                   bruteforce_index, callback_end, callback_end_calls, bf_exit, stop_mark,
                   messages, loop, sm_i, loop_counter>>
    /\ UNCHANGED <<isoTpVars, xcpVars, udsVars, dscVars, bus_sent>>

\* Mutant: __exit__ goes straight to bus.shutdown()
ExitDisablesNotifier_Never(prog, current_notifier) == FALSE

\* can_actions.py line 94: if self.notifier is not None (IsoTp.__exit__ has no notifier)
ExitDisablesNotifier(prog, current_notifier) ==
    prog # "isotp" /\ current_notifier # "None"

\* can_actions.py lines 94-95 and 104: __exit__ calls disable_notifier, which first
\* clears the listeners
ExitClearListeners ==
    /\ with_pc = "exit"
    /\ ExitDisablesNotifier(program, notifier)
    /\ listeners' = <<>>
    /\ with_pc' = "notifier_stop"
    /\ UNCHANGED <<program, with_exc, notifier_enabled, notifier, bus_state, self_arb_id,
                   bruteforce_running, send_args, bf_pc, bf_op, bf_value, bf_min, bf_max,
                   bf_data, bruteforce_index, callback_end, callback_end_calls, bf_exit,
                   stop_mark, messages, loop, sm_i, loop_counter>>
    /\ UNCHANGED <<isoTpVars, xcpVars, udsVars, dscVars, bus_sent>>

\* can_actions.py lines 106-107: self.notifier.stop(...); self.notifier = None
ExitNotifierStop ==
    /\ with_pc = "notifier_stop"
    /\ notifier' = "None"
    /\ with_pc' = "shutdown"
    /\ UNCHANGED <<program, with_exc, notifier_enabled, listeners, bus_state, self_arb_id,
                   bruteforce_running, send_args, bf_pc, bf_op, bf_value, bf_min, bf_max,
                   bf_data, bruteforce_index, callback_end, callback_end_calls, bf_exit,
                   stop_mark, messages, loop, sm_i, loop_counter>>
    /\ UNCHANGED <<isoTpVars, xcpVars, udsVars, dscVars, bus_sent>>

\* can_actions.py line 96 and iso15765_2.py line 67: self.bus.shutdown()
ExitShutdown ==
    /\ \/ with_pc = "shutdown"
       \/ with_pc = "exit" /\ ~ExitDisablesNotifier(program, notifier)
    /\ bus_state' = "shutdown"
    /\ with_pc' = "left"
    /\ UNCHANGED <<program, with_exc, notifier_enabled, notifier, listeners, self_arb_id,
                   bruteforce_running, send_args, bf_pc, bf_op, bf_value, bf_min, bf_max,
                   bf_data, bruteforce_index, callback_end, callback_end_calls, bf_exit,
                   stop_mark, messages, loop, sm_i, loop_counter>>
    /\ UNCHANGED <<isoTpVars, xcpVars, udsVars, dscVars, bus_sent>>

(***************************************************************************)
(* bruteforce_data_new (can_actions.py:222-258).  The nested calls           *)
(* bruteforce(0), bruteforce(1), ... are a set of nested loops; dn_values     *)
(* holds their loop variables.  One step per call of the inner send: the     *)
(* listener and the frame, then the delay and the look at the stop flag.     *)
(***************************************************************************)
\* The data handed to bruteforce_data_new
DataNewData == <<2, 16, 1>>

\* The lists of byte positions: none, one, two distinct ones, one listed twice
IndexLists == {<<>>, <<0>>, <<2, 0>>, <<1, 1>>}

\* Value ranges [min_value, max_value]: two values, the single value 255, none
DataNewRanges == {<<0, 1>>, <<255, 255>>, <<3, 2>>}

\* lines 247-249 unrolled: data[bruteforce_indices[idx]] = i for idx = 0, 1, ...
\* in turn, so that a position listed twice ends up with the later value
ApplyValues(data, idxs, vals) ==
    [p \in 1..Len(data) |->
        LET at == {j \in 1..Len(idxs) : idxs[j] = p - 1}
        IN  IF at = {} THEN data[p]
            ELSE vals[CHOOSE j \in at : \A other \in at : other <= j]]

\* lines 252-253: for idx_i in bruteforce_indices: data[idx_i] = 0
ZeroValues(data, idxs) == ApplyValues(data, idxs, [j \in 1..Len(idxs) |-> 0])

\* Mutant: the outermost loop alone goes on
HasNextValues_Outermost(vals, hi) == Len(vals) >= 1 /\ vals[1] < hi

\* line 247: is there a loop among the nested ones that has values left
HasNextValues(vals, hi) == \E j \in 1..Len(vals) : vals[j] < hi

\* line 247: the innermost loop that has values left takes its next value and
\* the loops inside it start again from min_value
NextValues(vals, lo, hi) ==
    LET j == CHOOSE j \in 1..Len(vals) :
                 vals[j] < hi /\ \A later \in (j + 1)..Len(vals) : vals[later] = hi
    IN  [i \in 1..Len(vals) |->
            IF i < j THEN vals[i] ELSE IF i = j THEN vals[j] + 1 ELSE lo]

\* What bruteforce_data_new leaves alone in all its steps
DataNewUnchanged ==
    /\ UNCHANGED <<program, notifier_enabled, notifier, bus_state, self_arb_id, bf_op,
                   bf_value, bruteforce_index, messages, loop, sm_i, loop_counter>>
    /\ UNCHANGED <<hit_counter, xd_reports, xd_flight, cd_pc, cd_index, connect_reply,
                   command_reply, cd_reports, cd_waited, cd_error, rx_thread, xd_seen,
                   xd_count>>
    /\ UNCHANGED <<isoTpVars, xcpVars, udsVars>>

\* lines 222-254: the call, up to the first send.  With an empty range and at
\* least one position the loops have no turn: lines 255-256 follow at once
DataNewCall ==
    /\ program = "bruteforce_data_new"
    /\ with_pc = "body"
    /\ bf_pc = "idle"
    /\ \E idxs \in IndexLists, range \in DataNewRanges, cb \in BOOLEAN :
          /\ bruteforce_indices' = idxs
          /\ bf_min' = range[1]
          /\ bf_max' = range[2]
          /\ callback_end' = cb
          /\ bf_data' = ZeroValues(DataNewData, idxs)
          /\ dn_values' = [j \in 1..Len(idxs) |-> range[1]]
          /\ IF Len(idxs) >= 1 /\ range[1] > range[2]
             THEN /\ bf_pc' = "returned"
                  /\ bf_exit' = "exhausted"
                  /\ callback_end_calls' = IF cb THEN <<"Scan finished">> ELSE <<>>
             ELSE /\ bf_pc' = "loop"
                  /\ UNCHANGED <<bf_exit, callback_end_calls>>
    /\ UNCHANGED <<with_pc, with_exc, listeners, bruteforce_running, send_args, stop_mark,
                   bus_sent>>
    /\ DataNewUnchanged

\* lines 235-236: the inner send installs the listener and sends the frame
DataNewSend ==
    /\ program = "bruteforce_data_new"
    /\ with_pc = "body"
    /\ bf_pc = "loop"
    /\ LET data == ApplyValues(bf_data, bruteforce_indices, dn_values)
       IN  /\ bf_data' = data
           /\ listeners' = <<[j \in 1..Len(bruteforce_indices) |->
                                 data[bruteforce_indices[j] + 1]]>>
           /\ send_args' = <<data, None, None>>
           /\ IF SendRaises(data, None, self_arb_id) = "none"
              THEN /\ bus_sent' = Append(bus_sent,
                                         SendMessage(data, None, None, self_arb_id))
                   /\ bf_pc' = "sleep"
                   /\ UNCHANGED <<with_pc, with_exc>>
              ELSE /\ BodyRaises(SendRaises(data, None, self_arb_id))
                   /\ bf_pc' = "raised"
                   /\ UNCHANGED bus_sent
    /\ UNCHANGED <<bruteforce_running, bf_min, bf_max, callback_end, callback_end_calls,
                   bf_exit, stop_mark, bruteforce_indices, dn_values>>
    /\ DataNewUnchanged

\* lines 237-243: after the delay the stop flag is read; set or not, the inner
\* send returns to the loops of lines 247-249, which go on; lines 255-256 when
\* no loop has a value left
DataNewCheck ==
    /\ program = "bruteforce_data_new"
    /\ with_pc = "body"
    /\ bf_pc = "sleep"
    /\ listeners' = IF StopRequested(bruteforce_running) THEN <<>> ELSE listeners
    /\ IF HasNextValues(dn_values, bf_max)
       THEN /\ dn_values' = NextValues(dn_values, bf_min, bf_max)
            /\ bf_pc' = "loop"
            /\ UNCHANGED <<bf_exit, callback_end_calls>>
       ELSE /\ bf_pc' = "returned"
            /\ bf_exit' = "exhausted"
            /\ callback_end_calls' =
                   IF callback_end THEN Append(callback_end_calls, "Scan finished")
                   ELSE callback_end_calls
            /\ UNCHANGED dn_values
    /\ UNCHANGED <<with_pc, with_exc, bruteforce_running, send_args, bf_min, bf_max,
                   bf_data, callback_end, stop_mark, bruteforce_indices, bus_sent>>
    /\ DataNewUnchanged

\* lines 269-271: bruteforce_stop, called by a listener or another thread while
\* bruteforce_data_new runs
DataNewStop ==
    /\ program = "bruteforce_data_new"
    /\ with_pc = "body"
    /\ bf_pc \in {"loop", "sleep"}
    /\ stop_mark = None
    /\ bruteforce_running' = FALSE
    /\ stop_mark' = Len(bus_sent)
    /\ UNCHANGED <<with_pc, with_exc, listeners, send_args, bf_pc, bf_min, bf_max,
                   bf_data, callback_end, callback_end_calls, bf_exit,
                   bruteforce_indices, dn_values, bus_sent>>
    /\ DataNewUnchanged

\* The body of the with block ends after bruteforce_data_new has returned
DataNewReturn ==
    /\ program = "bruteforce_data_new"
    /\ with_pc = "body"
    /\ bf_pc = "returned"
    /\ with_pc' = "exit"
    /\ UNCHANGED <<with_exc, listeners, bruteforce_running, send_args, bf_pc, bf_min,
                   bf_max, bf_data, callback_end, callback_end_calls, bf_exit, stop_mark,
                   bruteforce_indices, dn_values, bus_sent>>
    /\ DataNewUnchanged

(***************************************************************************)
(* xcp_arbitration_id_discovery (xcp.py:179-215) on top of                    *)
(* bruteforce_arbitration_id (BruteforceLoop, BruteforceCheck).  The listener *)
(* installed for a probe is the closure response_analyser with that probe's   *)
(* arb_id; listeners holds the arb_id.  The notifier thread hands each frame  *)
(* to the listener installed at that moment.                                  *)
(***************************************************************************)
\* Mutant: every frame that starts with 0xFF is a hit
IsPositiveHit_AnyFF(data) == data[1] = 255

\* xcp.py line 196: msg.data[0] == 0xff and any(msg.data[1:])
IsPositiveHit(data) == data[1] = 255 /\ \E i \in 2..Len(data) : data[i] # 0

\* xcp.py line 204: msg.data[0] == 0xfe
IsBadReply(data) == data[1] = 254

\* Payloads on the bus: a Connect reply, 0xFF followed by zeros only, 0xFF
\* alone, an error reply, another frame, a frame without data
DiscoveryPayloads ==
    {<<255, 16, 0, 8, 8, 0, 1, 1>>, <<255, 0, 0, 0, 0, 0, 0, 0>>, <<255>>,
     <<254, 32>>, <<1, 0, 255>>, <<>>}

\* The arbitration ID a node answers on
ReplyId(probe) == IF probe = None THEN ARB_ID_FOREIGN ELSE probe + 1

\* What the discovery leaves alone in the steps of the other nodes and of the
\* notifier thread
DiscoveryUnchanged ==
    /\ UNCHANGED <<program, with_pc, with_exc, notifier_enabled, notifier, listeners,
                   bus_state, self_arb_id, bruteforce_running, send_args, bf_pc, bf_op,
                   bf_value, bf_min, bf_max, bf_data, bruteforce_index, callback_end,
                   callback_end_calls, bf_exit, stop_mark, messages, loop, sm_i,
                   loop_counter>>
    /\ UNCHANGED <<bruteforce_indices, dn_values, cd_pc, cd_index, connect_reply,
                   command_reply, cd_reports, cd_waited, cd_error>>
    /\ UNCHANGED <<isoTpVars, xcpVars, udsVars, bus_sent>>

\* xcp.py lines 179-215 and can_actions.py lines 154-179: hit_counter = 0 and the
\* call bruteforce_arbitration_id([0xff], response_analyser_wrapper, min_id,
\* max_id, callback_end=discovery_end)
DiscoveryCall ==
    /\ program = "xcp_discovery"
    /\ with_pc = "body"
    /\ bf_pc = "idle"
    /\ hit_counter' = 0
    /\ \E range \in ArbIdRanges :
          /\ bf_min' = range[1]
          /\ bf_max' = range[2]
          /\ IF range[1] > range[2]
             THEN /\ callback_end_calls' = <<"Invalid range: min > max">>
                  /\ bf_pc' = "returned"
                  /\ bf_exit' = "invalid_range"
                  /\ UNCHANGED <<bruteforce_running, bf_value>>
             ELSE /\ bruteforce_running' = TRUE
                  /\ bf_value' = range[1]
                  /\ bf_pc' = "loop"
                  /\ UNCHANGED <<callback_end_calls, bf_exit>>
    /\ UNCHANGED <<program, with_pc, with_exc, notifier_enabled, notifier, listeners,
                   bus_state, self_arb_id, send_args, bf_op, bf_data, bruteforce_index,
                   callback_end, stop_mark, messages, loop, sm_i, loop_counter>>
    /\ UNCHANGED <<bruteforce_indices, dn_values, xd_reports, xd_flight, cd_pc, cd_index,
                   connect_reply, command_reply, cd_reports, cd_waited, cd_error,
                   rx_thread, xd_seen, xd_count>>
    /\ UNCHANGED <<isoTpVars, xcpVars, udsVars, bus_sent>>

\* A node puts a frame on the bus: its answer to one of the probes sent so far,
\* whenever it is ready, or a frame that answers nothing (probe None)
DiscoveryReply ==
    /\ program = "xcp_discovery"
    /\ with_pc = "body"
    /\ xd_count < MaxXdFrames
    /\ \E probe \in {None} \cup {bus_sent[i].arbitration_id : i \in 1..Len(bus_sent)},
          data \in DiscoveryPayloads :
          xd_flight' = xd_flight \cup
                          {[probe |-> probe,
                            msg |-> CanMessageOf(data, ReplyId(probe), FALSE)]}
    /\ xd_count' = xd_count + 1
    /\ UNCHANGED <<hit_counter, xd_reports, rx_thread, xd_seen>>
    /\ DiscoveryUnchanged

\* xcp.py lines 193-208: the notifier thread takes a frame and calls the listener
\* that is installed.  msg.data[0] of a frame without data raises IndexError, and
\* decode_xcp_error raises AttributeError (XCP_ERROR_CODES, lines 9-28, is a set
\* and has no get); what the Notifier of python-can does with an exception of a
\* listener is up to the library: it goes on, or its thread ends
DiscoveryDispatch ==
    /\ program = "xcp_discovery"
    /\ \E f \in xd_flight :
          /\ xd_flight' = xd_flight \ {f}
          /\ IF notifier = "Notifier" /\ rx_thread = "running" /\ Len(listeners) > 0
             THEN /\ xd_seen' = Append(xd_seen, f.msg)
                  /\ IF Len(f.msg.data) = 0
                     THEN /\ rx_thread' \in {"running", "ended"}
                          /\ UNCHANGED <<hit_counter, xd_reports>>
                     ELSE IF IsPositiveHit(f.msg.data)
                     THEN /\ hit_counter' = hit_counter + 1
                          /\ xd_reports' = Append(xd_reports,
                                                  [kind |-> "hit",
                                                   arb_id |-> listeners[1],
                                                   reply_id |-> f.msg.arbitration_id,
                                                   probe |-> f.probe])
                          /\ UNCHANGED rx_thread
                     ELSE IF IsBadReply(f.msg.data)
                     THEN /\ xd_reports' = Append(xd_reports,
                                                  [kind |-> "bad",
                                                   arb_id |-> listeners[1],
                                                   reply_id |-> f.msg.arbitration_id,
                                                   probe |-> f.probe])
                          /\ rx_thread' \in {"running", "ended"}
                          /\ UNCHANGED hit_counter
                     ELSE UNCHANGED <<hit_counter, xd_reports, rx_thread>>
             ELSE UNCHANGED <<hit_counter, xd_reports, rx_thread, xd_seen>>
    /\ UNCHANGED xd_count
    /\ DiscoveryUnchanged

\* xcp.py line 215: the with block ends when bruteforce_arbitration_id returns
DiscoveryReturn ==
    /\ program = "xcp_discovery"
    /\ with_pc = "body"
    /\ bf_pc = "returned"
    /\ with_pc' = "exit"
    /\ UNCHANGED <<program, with_exc, notifier_enabled, notifier, listeners, bus_state,
                   self_arb_id, bruteforce_running, send_args, bf_pc, bf_op, bf_value,
                   bf_min, bf_max, bf_data, bruteforce_index, callback_end,
                   callback_end_calls, bf_exit, stop_mark, messages, loop, sm_i,
                   loop_counter>>
    /\ UNCHANGED <<isoTpVars, xcpVars, udsVars, dscVars, bus_sent>>

\* xcp.py lines 221-222 and 333-334: the arguments src and dst
send_arb_id == 1000

rcv_arb_id == 1001

(***************************************************************************)
(* xcp_command_discovery (xcp.py:218-266).  The main thread installs a        *)
(* listener, sends, and spins until the listener has set the reply flag or    *)
(* 3 s have passed; the notifier thread runs the listener meanwhile.  Time    *)
(* passes in steps of one second.                                             *)
(***************************************************************************)
\* xcp.py lines 240 and 260: timedelta(seconds=3)
WAIT_SECONDS == 3

\* xcp.py lines 31-88: the code of XCP_COMMAND_CODES[i]; CONNECT is entry 0
CommandCode(i) == 255 - i

\* xcp.py line 223: connect_message
connect_message == <<255, 0, 0, 0, 0, 0, 0, 0>>

\* xcp.py line 247: cmd_msg
CommandMessage(cmd_code) == <<cmd_code, 0, 0, 0, 0, 0, 0, 0>>

\* xcp.py line 253: msg.data[0] != 0xFE
ReportedSupported(data) == data[1] # 254

\* What the command discovery leaves alone in all its steps
CommandsUnchanged ==
    /\ UNCHANGED <<program, notifier_enabled, notifier, bus_state, self_arb_id,
                   bruteforce_running, send_args, bf_pc, bf_op, bf_value, bf_min, bf_max,
                   bf_data, bruteforce_index, callback_end, callback_end_calls, bf_exit,
                   stop_mark, messages, loop, sm_i, loop_counter>>
    /\ UNCHANGED <<bruteforce_indices, dn_values, hit_counter, xd_reports, xd_flight,
                   rx_thread, xd_seen>>
    /\ UNCHANGED <<isoTpVars, xcpVars, udsVars>>

\* xcp.py lines 235-238 and can_actions.py line 266: the next command of the
\* table, connect_reply = False, and the listener for the Connect reply; line 266
\* when the table is exhausted
CommandsConnectListener ==
    /\ program = "xcp_commands"
    /\ with_pc = "body"
    /\ cd_pc = "next"
    /\ IF cd_index > MaxCommands
       THEN /\ cd_pc' = "done"
            /\ with_pc' = "exit"
            /\ UNCHANGED <<connect_reply, listeners>>
       ELSE /\ connect_reply' = FALSE
            /\ listeners' = <<"connect_callback_handler">>
            /\ cd_pc' = "connect_send"
            /\ UNCHANGED with_pc
    /\ UNCHANGED <<with_exc, cd_index, command_reply, cd_reports, cd_waited, cd_error,
                   xd_count, bus_sent>>
    /\ CommandsUnchanged

\* xcp.py lines 238-239 and can_actions.py line 267: Connect is sent and the wait
\* starts
CommandsConnectSend ==
    /\ program = "xcp_commands"
    /\ with_pc = "body"
    /\ cd_pc = "connect_send"
    /\ bus_sent' = Append(bus_sent, SendMessage(connect_message, None, None, self_arb_id))
    /\ cd_waited' = 0
    /\ cd_pc' = "connect_wait"
    /\ UNCHANGED <<with_pc, with_exc, listeners, cd_index, connect_reply, command_reply,
                   cd_reports, cd_error, xd_count>>
    /\ CommandsUnchanged

\* A second passes while the main thread spins in line 240 or line 260
CommandsTick ==
    /\ program = "xcp_commands"
    /\ with_pc = "body"
    /\ cd_pc \in {"connect_wait", "command_wait"}
    /\ cd_waited < WAIT_SECONDS
    /\ cd_waited' = cd_waited + 1
    /\ UNCHANGED <<with_pc, with_exc, listeners, cd_pc, cd_index, connect_reply,
                   command_reply, cd_reports, cd_error, xd_count, bus_sent>>
    /\ CommandsUnchanged

\* xcp.py lines 240-258 and can_actions.py line 266: the wait for the Connect
\* reply ends; exit() on a timeout, else command_reply = False and the listener
\* for the command's reply
CommandsCommandListener ==
    /\ program = "xcp_commands"
    /\ with_pc = "body"
    /\ cd_pc = "connect_wait"
    /\ connect_reply \/ cd_waited = WAIT_SECONDS
    /\ IF ~connect_reply
       THEN /\ cd_error' = "connect_timeout"
            /\ cd_pc' = "exited"
            /\ BodyRaises("SystemExit")
            /\ UNCHANGED <<command_reply, listeners>>
       ELSE /\ command_reply' = FALSE
            /\ listeners' = <<"callback_handler">>
            /\ cd_pc' = "command_send"
            /\ UNCHANGED <<cd_error, with_pc, with_exc>>
    /\ UNCHANGED <<cd_index, connect_reply, cd_reports, cd_waited, xd_count, bus_sent>>
    /\ CommandsUnchanged

\* xcp.py lines 258-259 and can_actions.py line 267: the command is sent and the
\* wait starts
CommandsCommandSend ==
    /\ program = "xcp_commands"
    /\ with_pc = "body"
    /\ cd_pc = "command_send"
    /\ bus_sent' = Append(bus_sent,
                          SendMessage(CommandMessage(CommandCode(cd_index)), None, None,
                                      self_arb_id))
    /\ cd_waited' = 0
    /\ cd_pc' = "command_wait"
    /\ UNCHANGED <<with_pc, with_exc, listeners, cd_index, connect_reply, command_reply,
                   cd_reports, cd_error, xd_count>>
    /\ CommandsUnchanged

\* xcp.py lines 260-265: the wait for the command's reply ends; exit() on a
\* timeout, else clear_listeners() and on to the next command
CommandsClear ==
    /\ program = "xcp_commands"
    /\ with_pc = "body"
    /\ cd_pc = "command_wait"
    /\ command_reply \/ cd_waited = WAIT_SECONDS
    /\ IF ~command_reply
       THEN /\ cd_error' = "command_timeout"
            /\ cd_pc' = "exited"
            /\ BodyRaises("SystemExit")
            /\ UNCHANGED <<cd_index, listeners>>
       ELSE /\ listeners' = <<>>
            /\ cd_index' = cd_index + 1
            /\ cd_pc' = "next"
            /\ UNCHANGED <<cd_error, with_pc, with_exc>>
    /\ UNCHANGED <<connect_reply, command_reply, cd_reports, cd_waited, xd_count,
                   bus_sent>>
    /\ CommandsUnchanged

\* xcp.py lines 225-228 and 250-254: a frame arrives and the notifier thread
\* calls the listener that is installed.  answers is the number of the request
\* the frame answers (None: it answers none); the program does not see it
CommandsReceive ==
    /\ program = "xcp_commands"
    /\ with_pc = "body"
    /\ notifier = "Notifier"
    /\ xd_count < MaxCdFrames
    /\ xd_count' = xd_count + 1
    /\ \E answers \in {None} \cup (1..Len(bus_sent)),
          data \in {connect_message, <<254, 32>>},
          arbitration_id \in {rcv_arb_id, rcv_arb_id + 1} :
          IF Len(listeners) = 0 \/ arbitration_id # rcv_arb_id
          THEN UNCHANGED <<connect_reply, command_reply, cd_reports>>
          ELSE IF listeners[1] = "connect_callback_handler"
          THEN /\ connect_reply' = TRUE
               /\ UNCHANGED <<command_reply, cd_reports>>
          ELSE /\ cd_reports' = Append(cd_reports,
                                       [cmd |-> CommandCode(cd_index),
                                        supported |-> ReportedSupported(data),
                                        data |-> data,
                                        answers |-> answers])
               /\ command_reply' = TRUE
               /\ UNCHANGED connect_reply
    /\ UNCHANGED <<with_pc, with_exc, listeners, cd_pc, cd_index, cd_waited, cd_error,
                   bus_sent>>
    /\ CommandsUnchanged

(***************************************************************************)
(* xcp_memory_dump (xcp.py:327-453).  The main thread sends Connect and     *)
(* then counts idle_timeout down in its sleep loop; the notifier thread     *)
(* runs the listener installed by send_single_message_with_callback         *)
(* (can_actions.py:260-267) on every message it receives.  A listener runs  *)
(* as one step; `idle_timeout -= 0.5` of the main thread is a load and a    *)
(* store.  idle_timeout is counted in steps of 0.5 s.                       *)
(***************************************************************************)
\* xcp.py line 339
max_segment_size == 7

\* xcp.py lines 343, 358: idle_timeout = 3.0, in steps of 0.5 s (line 451)
IDLE_TIMEOUT_STEPS == 6

\* list.reverse()
Reverse(s) == [i \in 1..Len(s) |-> s[Len(s) + 1 - i]]

\* Python's s[a:b] for a >= 0 and any integer b
Slice(s, a, b) ==
    LET stop == IF b < 0 THEN (IF Len(s) + b < 0 THEN 0 ELSE Len(s) + b)
                ELSE Min(b, Len(s))
    IN  IF stop <= a THEN <<>> ELSE SubSeq(s, a + 1, stop)

\* xcp.py lines 426-434: n &= 0xFFFFFFFF, then four times r.append(n & 0xFF); n >>= 8.
\* n is given by its base-256 digits, most significant first: the mask keeps the
\* last four digits and the loop appends them from the last one backwards
AddressBytes(n) == [i \in 1..4 |-> IF i <= Len(n) THEN n[Len(n) + 1 - i] ELSE 0]

\* Mutant: every upload request asks for a full segment
UploadSize_Full(left) == max_segment_size

\* xcp.py lines 386, 401: min(max_segment_size, bytes_left)
UploadSize(left) == Min(max_segment_size, left)

\* can_actions.py lines 260-267: send_single_message_with_callback(data, callback)
SendSingleMessageWithCallback(data, callback) ==
    /\ listeners' = <<callback>>
    /\ bus_sent' = Append(bus_sent, SendMessage(data, None, None, self_arb_id))

\* xcp.py lines 405-424
handle_connect_reply(msg) ==
    IF msg.arbitration_id # rcv_arb_id
    THEN UNCHANGED <<listeners, bus_sent, r, xcp_errors>>
    ELSE IF msg.data[1] = 254
    THEN /\ xcp_errors' = xcp_errors + 1
         /\ UNCHANGED <<listeners, bus_sent, r>>
    ELSE IF msg.data[1] = 255
    THEN LET msb_format == msg.data[3] % 2
             reversed == IF msb_format = 1 THEN r ELSE Reverse(r)
         IN  /\ r' = reversed
             /\ SendSingleMessageWithCallback(
                    <<246, 0, 0, 0, reversed[1], reversed[2], reversed[3], reversed[4]>>,
                    "handle_set_mta_reply")
             /\ UNCHANGED xcp_errors
    ELSE UNCHANGED <<listeners, bus_sent, r, xcp_errors>>

\* xcp.py lines 389-403
handle_set_mta_reply(msg) ==
    IF msg.arbitration_id # rcv_arb_id
    THEN UNCHANGED <<listeners, bus_sent, xcp_errors>>
    ELSE IF msg.data[1] = 254
    THEN /\ xcp_errors' = xcp_errors + 1
         /\ UNCHANGED <<listeners, bus_sent>>
    ELSE IF msg.data[1] = 255
    THEN /\ SendSingleMessageWithCallback(<<245, UploadSize(bytes_left)>>,
                                          "handle_upload_reply")
         /\ UNCHANGED xcp_errors
    ELSE UNCHANGED <<listeners, bus_sent, xcp_errors>>

\* xcp.py lines 349-387
handle_upload_reply(msg) ==
    IF msg.arbitration_id # rcv_arb_id
    THEN UNCHANGED <<listeners, bus_sent, xcp_errors, idle_timeout, xcp_output,
                     byte_counter, bytes_left, dump_complete, segment_counter>>
    ELSE IF msg.data[1] = 254
    THEN /\ xcp_errors' = xcp_errors + 1
         /\ UNCHANGED <<listeners, bus_sent, idle_timeout, xcp_output, byte_counter,
                        bytes_left, dump_complete, segment_counter>>
    ELSE IF msg.data[1] = 255
    THEN LET end_index == Min(8, bytes_left + 1)
             left == bytes_left - 7
         IN  /\ idle_timeout' = IDLE_TIMEOUT_STEPS
             /\ xcp_output' = xcp_output \o Slice(msg.data, 1, end_index)
             /\ bytes_left' = left
             /\ IF left < 1
                THEN /\ dump_complete' = TRUE
                     /\ byte_counter' = byte_counter + 7
                     /\ UNCHANGED <<listeners, bus_sent, segment_counter>>
                ELSE IF byte_counter + 7 > max_segment_size - 1
                THEN /\ segment_counter' = segment_counter + 1
                     /\ byte_counter' = 0
                     /\ SendSingleMessageWithCallback(<<245, UploadSize(left)>>,
                                                      "handle_upload_reply")
                     /\ UNCHANGED dump_complete
                ELSE /\ byte_counter' = byte_counter + 7
                     /\ UNCHANGED <<listeners, bus_sent, segment_counter, dump_complete>>
             /\ UNCHANGED xcp_errors
    ELSE UNCHANGED <<listeners, bus_sent, xcp_errors, idle_timeout, xcp_output,
                     byte_counter, bytes_left, dump_complete, segment_counter>>

\* The listener that is installed runs on msg
XcpHandle(msg) ==
    /\ program = "xcp_memory_dump"
    /\ notifier = "Notifier"
    /\ Len(listeners) > 0
    /\ xcp_msg' = msg
    /\ IF listeners[1] = "handle_connect_reply"
       THEN /\ handle_connect_reply(msg)
            /\ UNCHANGED <<idle_timeout, xcp_output, byte_counter, bytes_left,
                           dump_complete, segment_counter>>
       ELSE IF listeners[1] = "handle_set_mta_reply"
       THEN /\ handle_set_mta_reply(msg)
            /\ UNCHANGED <<r, idle_timeout, xcp_output, byte_counter, bytes_left,
                           dump_complete, segment_counter>>
       ELSE /\ handle_upload_reply(msg)
            /\ UNCHANGED r
    /\ UNCHANGED <<start_address, xcp_length, xcp_pc, xcp_tmp, xcp_end, slave>>
    /\ UNCHANGED <<program, with_pc, with_exc, notifier_enabled, notifier, bus_state,
                   self_arb_id, bruteforce_running, send_args, bf_pc, bf_op, bf_value,
                   bf_min, bf_max, bf_data, bruteforce_index, callback_end,
                   callback_end_calls, bf_exit, stop_mark, messages, loop, sm_i,
                   loop_counter>>
    /\ UNCHANGED <<isoTpVars, udsVars, dscVars>>

\* The notifier thread hands msg to the listener that is installed
XcpDispatch(msg) ==
    /\ XcpHandle(msg)
    /\ xcp_rx' = xcp_rx + 1

\* What the slave and the other nodes put on the bus: positive replies with byte 2
\* even and odd, a positive reply of three bytes, an error reply, an unexpected
\* frame, and a positive reply on a foreign arbitration ID
PositiveReplies == {<<255, 16, 0, 8, 8, 0, 1, 1>>, <<255, 17, 1, 30, 31, 32, 33, 34>>}

XcpInputs ==
    {CanMessageOf(d, rcv_arb_id, FALSE) :
        d \in PositiveReplies \cup {<<255, 9, 1>>, <<254, 32, 0, 0, 0, 0, 0, 0>>,
                                    <<1, 2, 3, 4, 5, 6, 7, 8>>}}
    \cup {CanMessageOf(<<255, 16, 0, 8, 8, 0, 1, 1>>, rcv_arb_id + 1, FALSE)}

\* A message arrives.  The nominal slave answers each request with one positive
\* 8-byte reply; otherwise anything may arrive at any time
XcpReceive ==
    /\ xcp_rx < MaxXcpRecv
    /\ \E msg \in IF slave = "any" THEN XcpInputs
                  ELSE IF xcp_rx < Len(bus_sent)
                  THEN {CanMessageOf(d, rcv_arb_id, FALSE) : d \in PositiveReplies}
                  ELSE {} :
          XcpDispatch(msg)

\* Further messages arrive after MaxXcpRecv dispatches, for as long as the dump
\* is not complete; the count of dispatches stays at MaxXcpRecv.  Error replies
\* are left out of this stream: they change nothing but the count of errors
XcpReceiveOn ==
    /\ xcp_rx = MaxXcpRecv
    /\ slave = "any"
    /\ ~dump_complete
    /\ \E msg \in {m \in XcpInputs : m.data[1] # 254} : XcpHandle(msg)
    /\ UNCHANGED xcp_rx

\* The main thread's variables change; the CanActions instance and the dump's
\* counters do not
XcpMainUnchanged ==
    /\ UNCHANGED <<start_address, xcp_length, r, bytes_left, byte_counter,
                   segment_counter, dump_complete, xcp_output, xcp_errors, xcp_msg,
                   xcp_rx, slave>>
    /\ UNCHANGED <<program, with_exc, notifier_enabled, notifier, bus_state,
                   self_arb_id, bruteforce_running, send_args, bf_pc, bf_op, bf_value,
                   bf_min, bf_max, bf_data, bruteforce_index, callback_end,
                   callback_end_calls, bf_exit, stop_mark, messages, loop, sm_i,
                   loop_counter>>
    /\ UNCHANGED <<isoTpVars, udsVars, dscVars>>

\* xcp.py line 447, can_actions.py line 266: the main thread installs the
\* listener for the Connect reply; the notifier thread is already running
XcpConnectListener ==
    /\ with_pc = "body"
    /\ xcp_pc = "start"
    /\ listeners' = <<"handle_connect_reply">>
    /\ xcp_pc' = "connect"
    /\ UNCHANGED <<idle_timeout, xcp_tmp, xcp_end, with_pc, bus_sent>>
    /\ XcpMainUnchanged

\* xcp.py line 447, can_actions.py line 267: the main thread sends Connect
XcpConnect ==
    /\ with_pc = "body"
    /\ xcp_pc = "connect"
    /\ bus_sent' = Append(bus_sent, SendMessage(<<255>>, None, None, self_arb_id))
    /\ xcp_pc' = "loop"
    /\ UNCHANGED <<idle_timeout, xcp_tmp, xcp_end, with_pc, listeners>>
    /\ XcpMainUnchanged

\* xcp.py line 449: while idle_timeout > 0.0 and not dump_complete
XcpLoop ==
    /\ with_pc = "body"
    /\ xcp_pc = "loop"
    /\ xcp_pc' = IF idle_timeout > 0 /\ ~dump_complete THEN "sleep" ELSE "report"
    /\ UNCHANGED <<idle_timeout, xcp_tmp, xcp_end, with_pc, listeners, bus_sent>>
    /\ XcpMainUnchanged

\* xcp.py lines 450-451: time.sleep(0.5), then idle_timeout is loaded
XcpSleep ==
    /\ with_pc = "body"
    /\ xcp_pc = "sleep"
    /\ xcp_tmp' = idle_timeout
    /\ xcp_pc' = "store"
    /\ UNCHANGED <<idle_timeout, xcp_end, with_pc, listeners, bus_sent>>
    /\ XcpMainUnchanged

\* Mutant: the loaded value is stored back as it is
XcpStore_NoCountdown ==
    /\ with_pc = "body"
    /\ xcp_pc = "store"
    /\ idle_timeout' = xcp_tmp
    /\ xcp_pc' = "loop"
    /\ UNCHANGED <<xcp_tmp, xcp_end, with_pc, listeners, bus_sent>>
    /\ XcpMainUnchanged

\* xcp.py line 451: the loaded value less 0.5 is stored
XcpStore ==
    /\ with_pc = "body"
    /\ xcp_pc = "store"
    /\ idle_timeout' = xcp_tmp - 1
    /\ xcp_pc' = "loop"
    /\ UNCHANGED <<xcp_tmp, xcp_end, with_pc, listeners, bus_sent>>
    /\ XcpMainUnchanged

\* xcp.py lines 452-453: the idle-timeout error, and the end of the with block
XcpReport ==
    /\ with_pc = "body"
    /\ xcp_pc = "report"
    /\ xcp_end' = IF ~dump_complete THEN "idle_timeout" ELSE "complete"
    /\ xcp_pc' = "done"
    /\ with_pc' = "exit"
    /\ UNCHANGED <<idle_timeout, xcp_tmp, listeners, bus_sent>>
    /\ XcpMainUnchanged

(***************************************************************************)
(* UDS orchestration: uds_discovery, service_discovery and ecu_reset, with  *)
(* the request/response exchange they share.  The bodies of these functions *)
(* are not part of the sources; they follow sections 4.4.1 to 4.4.5 of the   *)
(* specification and the expectations of tests/test_module_uds.py.          *)
(***************************************************************************)
NR_SI == 127

DIAGNOSTIC_SESSION_CONTROL == 16

ECU_RESET == 17

SERVICE_NOT_SUPPORTED == 17

SUB_FUNCTION_NOT_SUPPORTED == 18

REQUEST_CORRECTLY_RECEIVED_RESPONSE_PENDING == 120

\* The bounded number of responsePending answers one exchange waits through
MAX_PENDING == 10

\* The sorted list of the elements of a finite set of integers
RECURSIVE SortedSeq(_)
SortedSeq(S) ==
    IF S = {} THEN <<>>
    ELSE LET least == CHOOSE x \in S : \A y \in S : x <= y
         IN  <<least>> \o SortedSeq(S \ {least})

\* The first byte of the positive response to a service
get_service_response_id(sid) == BitOr(sid, 64)

\* Section 4.4.2, step 2b: a drained frame is a candidate response unless it comes
\* from the probing ID itself or from a blacklisted ID
IsCandidate_AnyFrame(frame_id, probing_id, blacklist) == TRUE

IsCandidate(frame_id, probing_id, blacklist) ==
    /\ frame_id # probing_id
    /\ frame_id \notin blacklist

\* Section 4.4.1: a responsePending negative response
IsResponsePending_Never(response) == FALSE

IsResponsePending(response) ==
    /\ Len(response) >= 3
    /\ response[1] = NR_SI
    /\ response[3] = REQUEST_CORRECTLY_RECEIVED_RESPONSE_PENDING

\* Section 4.4.3: what a response says about the probed service
IsSupported_AnyResponse(sid, response) == response # NoList

IsSupported(sid, response) ==
    /\ response # NoList
    /\ \/ response[1] = get_service_response_id(sid)
       \/ /\ Len(response) >= 3
          /\ response[1] = NR_SI
          /\ response[3] # SERVICE_NOT_SUPPORTED

\* The mock ECU of the tests: it serves requests on 0x300E from 0x300F and
\* supports Diagnostic Session Control and ECU Reset
MOCK_ARB_ID_REQUEST == 12302

MOCK_ARB_ID_RESPONSE == 12303

\* Sweeps of uds_discovery: the test's 0x3009..0x3013, three IDs, and an empty range
DiscoveryRanges ==
    {<<MOCK_ARB_ID_REQUEST - 5, MOCK_ARB_ID_REQUEST + 5>>,
     <<MOCK_ARB_ID_REQUEST - 1, MOCK_ARB_ID_REQUEST + 1>>,
     <<MOCK_ARB_ID_REQUEST + 1, MOCK_ARB_ID_REQUEST>>}

Blacklists == {{}, {MOCK_ARB_ID_RESPONSE}, {MOCK_ARB_ID_REQUEST - 1}}

\* The IDs a frame can come from while a probe is drained
ResponderIds ==
    {MOCK_ARB_ID_REQUEST - 1, MOCK_ARB_ID_REQUEST, MOCK_ARB_ID_RESPONSE}

\* The IDs heard while the probe on client_id is drained
DrainedIds(client_id) ==
    IF ecu = "mock"
    THEN {IF client_id = MOCK_ARB_ID_REQUEST THEN {MOCK_ARB_ID_RESPONSE} ELSE {}}
    ELSE SUBSET ResponderIds

\* Sweeps of service_discovery: the tests' 0x09..0x13 and 0x00..0x05, two SIDs, and
\* an empty range
ServiceRanges == {<<9, 19>>, <<0, 5>>, <<16, 17>>, <<18, 17>>}

\* What the ECU can answer to a request for service sid
Responses(sid) ==
    IF ecu = "mock"
    THEN {IF sid \in {DIAGNOSTIC_SESSION_CONTROL, ECU_RESET}
          THEN <<get_service_response_id(sid), 1>>
          ELSE <<NR_SI, sid, SERVICE_NOT_SUPPORTED>>}
    ELSE {<<get_service_response_id(sid), 1>>,
          <<NR_SI, sid, SERVICE_NOT_SUPPORTED>>,
          <<NR_SI, sid, SUB_FUNCTION_NOT_SUPPORTED>>,
          <<NR_SI, sid, REQUEST_CORRECTLY_RECEIVED_RESPONSE_PENDING>>,
          NoList}

UdsUnchanged ==
    UNCHANGED <<isoTpVars, canVars, xcpVars, dscVars, bus_sent, uds_op, uds_args, ecu>>

\* uds_discovery, steps 2a and 2b: probe the next client ID and drain the bus
UdsDiscoveryProbe ==
    /\ uds_op = "uds_discovery"
    /\ uds_pc = "probe"
    /\ uds_cur <= uds_args.max_id
    /\ IF uds_cur \in uds_args.blacklist
       THEN /\ uds_cur' = uds_cur + 1
            /\ UNCHANGED <<uds_pc, uds_candidates, uds_found, uds_log>>
       ELSE \E heard \in DrainedIds(uds_cur) :
              LET candidates == {id \in heard : IsCandidate(id, uds_cur, uds_args.blacklist)}
              IN  /\ uds_log' = Append(uds_log, [key |-> uds_cur, phase |-> 1, got |-> heard])
                  /\ IF candidates = {}
                     THEN /\ uds_cur' = uds_cur + 1
                          /\ UNCHANGED <<uds_pc, uds_candidates, uds_found>>
                     ELSE IF uds_args.verify
                     THEN /\ uds_pc' = "verify"
                          /\ uds_candidates' = candidates
                          /\ UNCHANGED <<uds_cur, uds_found>>
                     ELSE /\ uds_found' = uds_found \o
                                 [i \in 1..Cardinality(candidates) |->
                                     <<uds_cur, SortedSeq(candidates)[i]>>]
                          /\ uds_cur' = uds_cur + 1
                          /\ UNCHANGED <<uds_pc, uds_candidates>>
    /\ UNCHANGED <<uds_result, uds_response, uds_pending, uds_rx>>
    /\ UdsUnchanged

\* uds_discovery, step 2c: repeat the probe and keep the pairs that recur
UdsDiscoveryVerify ==
    /\ uds_op = "uds_discovery"
    /\ uds_pc = "verify"
    /\ \E heard \in DrainedIds(uds_cur) :
          LET kept == uds_candidates \cap heard
          IN  /\ uds_log' = Append(uds_log, [key |-> uds_cur, phase |-> 2, got |-> heard])
              /\ uds_found' = uds_found \o
                     [i \in 1..Cardinality(kept) |-> <<uds_cur, SortedSeq(kept)[i]>>]
    /\ uds_candidates' = {}
    /\ uds_cur' = uds_cur + 1
    /\ uds_pc' = "probe"
    /\ UNCHANGED <<uds_result, uds_response, uds_pending, uds_rx>>
    /\ UdsUnchanged

\* uds_discovery, step 3: the sweep is over
UdsDiscoveryReturn ==
    /\ uds_op = "uds_discovery"
    /\ uds_pc = "probe"
    /\ uds_cur > uds_args.max_id
    /\ uds_result' = uds_found
    /\ uds_pc' = "returned"
    /\ UNCHANGED <<uds_cur, uds_candidates, uds_found, uds_log, uds_response, uds_pending,
                   uds_rx>>
    /\ UdsUnchanged

\* Section 4.4.1: the request of an exchange has been sent with send_request
UdsRequest ==
    /\ uds_op \in {"service_discovery", "ecu_reset"}
    /\ uds_pc = "request"
    /\ uds_op = "service_discovery" => uds_cur <= uds_args.max_id
    /\ uds_pc' = "wait"
    /\ uds_response' = NotReturned
    /\ uds_pending' = 0
    /\ uds_rx' = <<>>
    /\ UNCHANGED <<uds_cur, uds_candidates, uds_found, uds_log, uds_result>>
    /\ UdsUnchanged

\* Section 4.4.1: one indication of the exchange; responsePending is discarded and
\* the wait restarts, up to MAX_PENDING times
UdsReceive ==
    /\ uds_pc = "wait"
    /\ \E response \in Responses(uds_cur) :
          /\ uds_rx' = Append(uds_rx, response)
          /\ IF response = NoList
             THEN /\ uds_response' = NoList
                  /\ uds_pc' = "received"
                  /\ UNCHANGED uds_pending
             ELSE IF IsResponsePending(response)
             THEN IF uds_pending < MAX_PENDING
                  THEN /\ uds_pending' = uds_pending + 1
                       /\ UNCHANGED <<uds_response, uds_pc>>
                  ELSE /\ uds_response' = NoList
                       /\ uds_pc' = "received"
                       /\ UNCHANGED uds_pending
             ELSE /\ uds_response' = response
                  /\ uds_pc' = "received"
                  /\ UNCHANGED uds_pending
    /\ UNCHANGED <<uds_cur, uds_candidates, uds_found, uds_log, uds_result>>
    /\ UdsUnchanged

\* service_discovery: classify the response to the probed SID and go on
ServiceDiscoveryClassify ==
    /\ uds_op = "service_discovery"
    /\ uds_pc = "received"
    /\ uds_log' = Append(uds_log, [key |-> uds_cur, phase |-> 1, got |-> uds_response])
    /\ uds_found' = IF IsSupported(uds_cur, uds_response)
                    THEN Append(uds_found, uds_cur) ELSE uds_found
    /\ uds_cur' = uds_cur + 1
    /\ uds_pc' = "request"
    /\ UNCHANGED <<uds_candidates, uds_result, uds_response, uds_pending, uds_rx>>
    /\ UdsUnchanged

\* service_discovery: the sweep is over
ServiceDiscoveryReturn ==
    /\ uds_op = "service_discovery"
    /\ uds_pc = "request"
    /\ uds_cur > uds_args.max_id
    /\ uds_result' = uds_found
    /\ uds_pc' = "returned"
    /\ UNCHANGED <<uds_cur, uds_candidates, uds_found, uds_log, uds_response, uds_pending,
                   uds_rx>>
    /\ UdsUnchanged

\* ecu_reset: return the response of the exchange
EcuResetReturn ==
    /\ uds_op = "ecu_reset"
    /\ uds_pc = "received"
    /\ uds_result' = uds_response
    /\ uds_pc' = "returned"
    /\ UNCHANGED <<uds_cur, uds_candidates, uds_found, uds_log, uds_response, uds_pending,
                   uds_rx>>
    /\ UdsUnchanged

(***************************************************************************)
(* Initial states and specifications.                                      *)
(***************************************************************************)
\* Nothing has been called yet: every call is idle and the bus log is empty
InitIdle ==
    /\ enc_pc = "idle"
    /\ frame_list = <<>>
    /\ bytes_left_to_copy = 0
    /\ bytes_copied = 0
    /\ enc_sn = 0
    /\ tx_pc = "idle"
    /\ frame_index = 0
    /\ number_of_frames_left_to_send = 0
    /\ number_of_frames_left_to_send_in_block = 0
    /\ st_min = 0
    /\ tx_msg = NoMessage
    /\ tx_sleeps = <<>>
    /\ tx_exit = "none"
    /\ tx_result = NotReturned
    /\ ind_pc = "idle"
    /\ trim_padding = TRUE
    /\ first_frame_only = FALSE
    /\ ind_message = <<>>
    /\ ind_sn = 0
    /\ message_length = 0
    /\ ind_msg = NoMessage
    /\ ind_result = NoList
    /\ ind_exit = "none"
    /\ delivered = 0
    /\ bus_sent = <<>>
    /\ recv_count = 0
    /\ now = 0
    /\ end_time = 0

\* No CanActions instance is in use
InitCanIdle ==
    /\ program = "none"
    /\ with_pc = "none"
    /\ with_exc = "none"
    /\ notifier_enabled = FALSE
    /\ notifier = "None"
    /\ listeners = <<>>
    /\ bus_state = "open"
    /\ self_arb_id = None
    /\ bruteforce_running = FALSE
    /\ send_args = <<>>
    /\ bf_pc = "idle"
    /\ bf_op = "none"
    /\ bf_value = 0
    /\ bf_min = 0
    /\ bf_max = 0
    /\ bf_data = <<>>
    /\ bruteforce_index = 0
    /\ callback_end = FALSE
    /\ callback_end_calls = <<>>
    /\ bf_exit = "none"
    /\ stop_mark = None
    /\ messages = <<>>
    /\ loop = FALSE
    /\ sm_i = 0
    /\ loop_counter = 0

\* xcp_memory_dump has not been called
InitXcpIdle ==
    /\ start_address = <<>>
    /\ xcp_length = 0
    /\ r = <<>>
    /\ bytes_left = 0
    /\ byte_counter = 0
    /\ segment_counter = 0
    /\ idle_timeout = 0
    /\ dump_complete = FALSE
    /\ xcp_pc = "idle"
    /\ xcp_tmp = 0
    /\ xcp_end = "none"
    /\ xcp_output = <<>>
    /\ xcp_errors = 0
    /\ xcp_msg = NoMessage
    /\ xcp_rx = 0
    /\ slave = "any"

\* Neither bruteforce_data_new nor an XCP discovery has been called
InitDscIdle ==
    /\ bruteforce_indices = <<>>
    /\ dn_values = <<>>
    /\ hit_counter = 0
    /\ xd_reports = <<>>
    /\ xd_flight = {}
    /\ cd_pc = "idle"
    /\ cd_index = 0
    /\ connect_reply = FALSE
    /\ command_reply = FALSE
    /\ cd_reports = <<>>
    /\ cd_waited = 0
    /\ cd_error = "none"
    /\ rx_thread = "running"
    /\ xd_seen = <<>>
    /\ xd_count = 0

\* No UDS function has been called
InitUdsIdle ==
    /\ uds_op = "none"
    /\ uds_pc = "idle"
    /\ uds_args = [min_id |-> 0, max_id |-> 0, blacklist |-> {}, verify |-> FALSE]
    /\ uds_cur = 0
    /\ uds_candidates = {}
    /\ uds_found = <<>>
    /\ uds_result = NotReturned
    /\ uds_log = <<>>
    /\ uds_response = NotReturned
    /\ uds_pending = 0
    /\ uds_rx = <<>>
    /\ ecu = "any"

\* The peer segments a payload with get_frames_from_message; this endpoint then
\* calls indication() and receives the frames in order.
InitCodec ==
    /\ message \in Payloads
    /\ padding_value \in PaddingChoices
    /\ caller = "get_frames_from_message"
    /\ peer_arb_id \in {arb_id_request, arb_id_response}
    /\ InitIdle
    /\ InitUdsIdle
    /\ InitDscIdle
    /\ InitCanIdle
    /\ InitXcpIdle

NextCodec ==
    \/ GetFramesStart
    \/ GetFramesLoop
    \/ IndicationCallDefault
    \/ IndicationRecvTrain
    \/ IndicationTimeout

SpecCodec == InitCodec /\ [][NextCodec]_vars

\* send_request(message) or send_response(message) on an IsoTp instance, with the
\* peer answering (or not) with arbitrary frames
InitSend ==
    /\ message \in SendPayloads
    /\ padding_value \in SendPaddingChoices
    /\ caller \in {"send_request", "send_response"}
    /\ peer_arb_id = arb_id_response
    /\ InitIdle
    /\ InitUdsIdle
    /\ InitDscIdle
    /\ InitCanIdle
    /\ InitXcpIdle

NextSend ==
    \/ GetFramesStart
    \/ GetFramesLoop
    \/ TransmitStart
    \/ TransmitRecv
    \/ TransmitRecvNone
    \/ TransmitSendFrame

SpecSend == InitSend /\ [][NextSend]_vars

\* The same calls on a bus that never runs out of frames, with the thread that
\* runs transmit always scheduled again
NextSendOn ==
    \/ NextSend
    \/ TransmitRecvOn

SpecSendOn == InitSend /\ [][NextSendOn]_vars /\ WF_vars(NextSendOn)

\* indication(...) on an IsoTp instance, with arbitrary frames arriving
InitIndication ==
    /\ message = <<>>
    /\ padding_value = 0
    /\ caller = "none"
    /\ peer_arb_id = arb_id_response
    /\ InitIdle
    /\ InitUdsIdle
    /\ InitDscIdle
    /\ InitCanIdle
    /\ InitXcpIdle

NextIndication ==
    \/ IndicationCall
    \/ IndicationRecv
    \/ IndicationRecvNone
    \/ IndicationTimeout

SpecIndication == InitIndication /\ [][NextIndication]_vars

\* indication(...) with a clock: every bus.recv takes time and the thread that
\* runs indication is always scheduled again
NextIndicationAt ==
    \/ IndicationCallAt
    \/ IndicationRecvAt
    \/ IndicationRecvNoneAt
    \/ IndicationTimeoutAt

SpecIndicationAt == InitIndication /\ [][NextIndicationAt]_vars /\ WF_vars(NextIndicationAt)

\* Either use of an ISO-TP channel: a send_request / send_response call, or an
\* indication call
InitChannel == InitSend \/ InitIndication

NextChannel == NextSend \/ NextIndication

SpecChannel == InitChannel /\ [][NextChannel]_vars

\* A program inside `with CanActions(...) as can_wrap:` or `with IsoTp(...) as tp:`
\* that sends with CanActions.send, replays messages with send_messages, runs a
\* bruteforce, or sends with IsoTp.send_message
InitScoped ==
    /\ message = <<>>
    /\ padding_value = 0
    /\ caller = "none"
    /\ peer_arb_id = arb_id_response
    /\ InitIdle
    /\ InitUdsIdle
    /\ InitDscIdle
    /\ InitXcpIdle
    /\ program \in {"isotp", "send", "send_messages", "bruteforce"}
    /\ with_pc = "body"
    /\ with_exc = "none"
    /\ notifier_enabled \in IF program = "send" THEN BOOLEAN
                            ELSE IF program = "bruteforce" THEN {TRUE} ELSE {FALSE}
    /\ notifier = IF notifier_enabled THEN "Notifier" ELSE "None"
    /\ listeners = <<>>
    /\ bus_state = "open"
    /\ self_arb_id \in IF program \in {"send", "bruteforce"}
                       THEN {None, ARBITRATION_ID_MAX + 1} ELSE {None}
    /\ bruteforce_running = FALSE
    /\ send_args = <<>>
    /\ bf_pc = "idle"
    /\ bf_op = "none"
    /\ bf_value = 0
    /\ bf_min = 0
    /\ bf_max = 0
    /\ bf_data = <<>>
    /\ bruteforce_index = 0
    /\ callback_end = FALSE
    /\ callback_end_calls = <<>>
    /\ bf_exit = "none"
    /\ stop_mark = None
    /\ messages \in IF program = "send_messages" THEN MessageLists ELSE {<<>>}
    /\ loop \in IF program = "send_messages" THEN BOOLEAN ELSE {FALSE}
    /\ sm_i = 0
    /\ loop_counter = 0

NextScoped ==
    \/ CanActionsSend
    \/ SendMessagesStep
    \/ IsoTpSendMessage
    \/ BruteforceCall
    \/ BruteforceLoop
    \/ BruteforceCheck
    \/ BruteforceStop
    \/ BodyReturn
    \/ BodyInterrupt
    \/ ExitClearListeners
    \/ ExitNotifierStop
    \/ ExitShutdown

SpecScoped == InitScoped /\ [][NextScoped]_vars

\* A `with CanActions(arb_id) as can_wrap:` block whose body calls
\* bruteforce_data_new.  bruteforce_running is False on a new instance (line 83)
\* and True on one whose earlier bruteforce_arbitration_id or bruteforce_data ran
\* to its end (lines 179, 209)
InitDataNew ==
    /\ message = <<>>
    /\ padding_value = 0
    /\ caller = "none"
    /\ peer_arb_id = arb_id_response
    /\ InitIdle
    /\ InitXcpIdle
    /\ InitUdsIdle
    /\ InitDscIdle
    /\ program = "bruteforce_data_new"
    /\ with_pc = "body"
    /\ with_exc = "none"
    /\ notifier_enabled = TRUE
    /\ notifier = "Notifier"
    /\ listeners = <<>>
    /\ bus_state = "open"
    /\ self_arb_id \in {None, ARBITRATION_ID_MAX + 1}
    /\ bruteforce_running \in BOOLEAN
    /\ send_args = <<>>
    /\ bf_pc = "idle"
    /\ bf_op = "bruteforce_data_new"
    /\ bf_value = 0
    /\ bf_min = 0
    /\ bf_max = 0
    /\ bf_data = <<>>
    /\ bruteforce_index = 0
    /\ callback_end = FALSE
    /\ callback_end_calls = <<>>
    /\ bf_exit = "none"
    /\ stop_mark = None
    /\ messages = <<>>
    /\ loop = FALSE
    /\ sm_i = 0
    /\ loop_counter = 0

NextDataNew ==
    \/ DataNewCall
    \/ DataNewSend
    \/ DataNewCheck
    \/ DataNewStop
    \/ DataNewReturn
    \/ ExitClearListeners
    \/ ExitNotifierStop
    \/ ExitShutdown

SpecDataNew == InitDataNew /\ [][NextDataNew]_vars

\* xcp.py line 186: `with CanActions() as can_wrap:`, no default arbitration ID,
\* before the discovery's call of bruteforce_arbitration_id
InitDiscovery ==
    /\ message = <<>>
    /\ padding_value = 0
    /\ caller = "none"
    /\ peer_arb_id = arb_id_response
    /\ InitIdle
    /\ InitXcpIdle
    /\ InitUdsIdle
    /\ InitDscIdle
    /\ program = "xcp_discovery"
    /\ with_pc = "body"
    /\ with_exc = "none"
    /\ notifier_enabled = TRUE
    /\ notifier = "Notifier"
    /\ listeners = <<>>
    /\ bus_state = "open"
    /\ self_arb_id = None
    /\ bruteforce_running = FALSE
    /\ send_args = <<>>
    /\ bf_pc = "idle"
    /\ bf_op = "bruteforce_arbitration_id"
    /\ bf_value = 0
    /\ bf_min = 0
    /\ bf_max = 0
    /\ bf_data = <<255>>
    /\ bruteforce_index = 0
    /\ callback_end = TRUE
    /\ callback_end_calls = <<>>
    /\ bf_exit = "none"
    /\ stop_mark = None
    /\ messages = <<>>
    /\ loop = FALSE
    /\ sm_i = 0
    /\ loop_counter = 0

NextDiscovery ==
    \/ DiscoveryCall
    \/ BruteforceLoop
    \/ BruteforceCheck
    \/ DiscoveryReply
    \/ DiscoveryDispatch
    \/ DiscoveryReturn
    \/ ExitClearListeners
    \/ ExitNotifierStop
    \/ ExitShutdown

SpecDiscovery == InitDiscovery /\ [][NextDiscovery]_vars

\* xcp.py line 233: `with CanActions(send_arb_id) as can_wrap:`, before the first
\* command of XCP_COMMAND_CODES[1:]
InitCommands ==
    /\ message = <<>>
    /\ padding_value = 0
    /\ caller = "none"
    /\ peer_arb_id = arb_id_response
    /\ InitIdle
    /\ InitXcpIdle
    /\ InitUdsIdle
    /\ bruteforce_indices = <<>>
    /\ dn_values = <<>>
    /\ hit_counter = 0
    /\ xd_reports = <<>>
    /\ xd_flight = {}
    /\ cd_pc = "next"
    /\ cd_index = 1
    /\ connect_reply \in BOOLEAN
    /\ command_reply \in BOOLEAN
    /\ cd_reports = <<>>
    /\ cd_waited = 0
    /\ cd_error = "none"
    /\ rx_thread = "running"
    /\ xd_seen = <<>>
    /\ xd_count = 0
    /\ program = "xcp_commands"
    /\ with_pc = "body"
    /\ with_exc = "none"
    /\ notifier_enabled = TRUE
    /\ notifier = "Notifier"
    /\ listeners = <<>>
    /\ bus_state = "open"
    /\ self_arb_id = send_arb_id
    /\ bruteforce_running = FALSE
    /\ send_args = <<>>
    /\ bf_pc = "idle"
    /\ bf_op = "none"
    /\ bf_value = 0
    /\ bf_min = 0
    /\ bf_max = 0
    /\ bf_data = <<>>
    /\ bruteforce_index = 0
    /\ callback_end = FALSE
    /\ callback_end_calls = <<>>
    /\ bf_exit = "none"
    /\ stop_mark = None
    /\ messages = <<>>
    /\ loop = FALSE
    /\ sm_i = 0
    /\ loop_counter = 0

NextCommands ==
    \/ CommandsConnectListener
    \/ CommandsConnectSend
    \/ CommandsTick
    \/ CommandsCommandListener
    \/ CommandsCommandSend
    \/ CommandsClear
    \/ CommandsReceive
    \/ ExitClearListeners
    \/ ExitNotifierStop
    \/ ExitShutdown

SpecCommands == InitCommands /\ [][NextCommands]_vars

\* Start addresses as base-256 digits, most significant first: 0x1FFFB000,
\* 0x010A0B0C0D (wider than 32 bits) and 0xB000; and dump lengths
StartAddresses == {<<31, 255, 176, 0>>, <<1, 10, 11, 12, 13>>, <<176, 0>>}

DumpLengths == {0, 1, 7, 8, 15}

\* xcp_memory_dump(args), at the point where the with block is entered
InitXcpDump ==
    /\ message = <<>>
    /\ padding_value = 0
    /\ caller = "none"
    /\ peer_arb_id = arb_id_response
    /\ InitIdle
    /\ InitUdsIdle
    /\ InitDscIdle
    /\ program = "xcp_memory_dump"
    /\ with_pc = "body"
    /\ with_exc = "none"
    /\ notifier_enabled = TRUE
    /\ notifier = "Notifier"
    /\ listeners = <<>>
    /\ bus_state = "open"
    /\ self_arb_id = send_arb_id
    /\ bruteforce_running = FALSE
    /\ send_args = <<>>
    /\ bf_pc = "idle"
    /\ bf_op = "none"
    /\ bf_value = 0
    /\ bf_min = 0
    /\ bf_max = 0
    /\ bf_data = <<>>
    /\ bruteforce_index = 0
    /\ callback_end = FALSE
    /\ callback_end_calls = <<>>
    /\ bf_exit = "none"
    /\ stop_mark = None
    /\ messages = <<>>
    /\ loop = FALSE
    /\ sm_i = 0
    /\ loop_counter = 0
    /\ start_address \in StartAddresses
    /\ xcp_length \in DumpLengths
    /\ r = AddressBytes(start_address)
    /\ bytes_left = xcp_length
    /\ byte_counter = 0
    /\ segment_counter = 0
    /\ idle_timeout = IDLE_TIMEOUT_STEPS
    /\ dump_complete = FALSE
    /\ xcp_pc = "start"
    /\ xcp_tmp = 0
    /\ xcp_end = "none"
    /\ xcp_output = <<>>
    /\ xcp_errors = 0
    /\ xcp_msg = NoMessage
    /\ xcp_rx = 0
    /\ slave \in {"nominal", "any"}

NextXcpDump ==
    \/ XcpConnectListener
    \/ XcpConnect
    \/ XcpLoop
    \/ XcpSleep
    \/ XcpStore
    \/ XcpReport
    \/ XcpReceive
    \/ ExitClearListeners
    \/ ExitNotifierStop
    \/ ExitShutdown

SpecXcpDump == InitXcpDump /\ [][NextXcpDump]_vars

\* The main thread of xcp_memory_dump: it is always scheduled again
XcpMain ==
    \/ XcpConnectListener
    \/ XcpConnect
    \/ XcpLoop
    \/ XcpSleep
    \/ XcpStore
    \/ XcpReport

\* The dump of one start address and of up to two segments, on a bus that never
\* falls silent and carries anything
InitXcpDumpOn ==
    /\ InitXcpDump
    /\ start_address = <<31, 255, 176, 0>>
    /\ xcp_length <= 8
    /\ slave = "any"

NextXcpDumpOn ==
    \/ NextXcpDump
    \/ XcpReceiveOn

SpecXcpDumpOn == InitXcpDumpOn /\ [][NextXcpDumpOn]_vars /\ WF_vars(XcpMain)

\* A call of uds_discovery, service_discovery or ecu_reset has been made; the ECU
\* is the tests' mock ECU or answers anything
InitUds ==
    /\ message = <<>>
    /\ padding_value = 0
    /\ caller = "none"
    /\ peer_arb_id = arb_id_response
    /\ InitIdle
    /\ InitCanIdle
    /\ InitXcpIdle
    /\ InitDscIdle
    /\ uds_op \in {"uds_discovery", "service_discovery", "ecu_reset"}
    /\ ecu \in {"mock", "any"}
    /\ uds_args \in
         IF uds_op = "uds_discovery"
         THEN {[min_id |-> rg[1], max_id |-> rg[2], blacklist |-> bl, verify |-> v] :
                 rg \in IF ecu = "mock" THEN DiscoveryRanges
                        ELSE DiscoveryRanges \ {<<MOCK_ARB_ID_REQUEST - 5, MOCK_ARB_ID_REQUEST + 5>>},
                 bl \in Blacklists, v \in BOOLEAN}
         ELSE IF uds_op = "service_discovery"
         THEN {[min_id |-> rg[1], max_id |-> rg[2], blacklist |-> {}, verify |-> FALSE] :
                 rg \in IF ecu = "mock" THEN ServiceRanges
                        ELSE ServiceRanges \ {<<9, 19>>, <<0, 5>>}}
         ELSE {[min_id |-> ECU_RESET, max_id |-> ECU_RESET, blacklist |-> {},
                verify |-> FALSE]}
    /\ uds_cur = uds_args.min_id
    /\ uds_pc = IF uds_op = "uds_discovery" THEN "probe" ELSE "request"
    /\ uds_candidates = {}
    /\ uds_found = <<>>
    /\ uds_result = NotReturned
    /\ uds_log = <<>>
    /\ uds_response = NotReturned
    /\ uds_pending = 0
    /\ uds_rx = <<>>

NextUds ==
    \/ UdsDiscoveryProbe
    \/ UdsDiscoveryVerify
    \/ UdsDiscoveryReturn
    \/ UdsRequest
    \/ UdsReceive
    \/ ServiceDiscoveryClassify
    \/ ServiceDiscoveryReturn
    \/ EcuResetReturn

SpecUds == InitUds /\ [][NextUds]_vars

(***************************************************************************)
(* Properties of the encoder and of the round trip (SpecCodec).             *)
(***************************************************************************)
EncoderDone == caller = "get_frames_from_message" /\ enc_pc = "returned"

\* Number of Consecutive Frames that a payload of length len needs: ceil((len - 6) / 7)
ExpectedCfCount(len) == (len - 6 + 6) \div 7

\* Number of payload bytes in the k-th Consecutive Frame of a payload of length len
CfPayloadLength(len, k) == IF len - 6 - 7 * (k - 1) < 7 THEN len - 6 - 7 * (k - 1) ELSE 7

\* C1: ISO-TP round trip. For a payload of 1..4095 bytes and any padding choice, an
\* indication() call (default arguments) that receives the frames of
\* get_frames_from_message in order on one endpoint's arbitration ID never raises,
\* returns only after the last frame of the train, and returns exactly the payload
\* (so the result does not depend on the padding choice).
C1_RoundTrip ==
    (caller = "get_frames_from_message" /\ Len(message) >= 1
        /\ Len(message) <= MAX_MESSAGE_LENGTH)
    => /\ ind_pc # "raised"
       /\ (ind_pc = "returned" /\ ind_exit # "timeout")
            => (ind_result = message /\ delivered = Len(frame_list))
       /\ (ind_pc # "idle" /\ delivered = Len(frame_list))
            => (ind_pc = "returned" /\ ind_result = message)

\* Witness of C1: a 300-byte payload (FF + 42 CFs), padded with 0xAA, was reassembled
C1_Witness ==
    /\ caller = "get_frames_from_message"
    /\ Len(message) = 300
    /\ Len(frame_list) = 43
    /\ padding_value = 170
    /\ ind_pc = "returned"
    /\ ind_exit = "last_frame"
    /\ ind_result = message

\* C4: frame-sequence structure. A payload of L <= 7 bytes gives exactly one Single
\* Frame, first byte 0x00 | L, then the L payload bytes; a payload of 8..4095 bytes
\* gives a First Frame with byte0 = 0x10 | (L >> 8), byte1 = L & 0xFF, bytes 2..7 =
\* the first 6 payload bytes, followed by exactly ceil((L - 6) / 7) Consecutive Frames.
C4_FrameStructure ==
    EncoderDone =>
        LET L == Len(message) IN
        IF L <= 7
        THEN /\ Len(frame_list) = 1
             /\ frame_list[1][1] = L
             /\ Len(frame_list[1]) >= L + 1
             /\ SubSeq(frame_list[1], 2, L + 1) = message
        ELSE /\ L <= MAX_MESSAGE_LENGTH
             /\ Len(frame_list[1]) = 8
             /\ frame_list[1][1] = 16 + (L \div 256)
             /\ frame_list[1][2] = L % 256
             /\ SubSeq(frame_list[1], 3, 8) = SubSeq(message, 1, 6)
             /\ Len(frame_list) = 1 + ExpectedCfCount(L)

\* Witness of C4: an 8-byte payload gave a First Frame and one Consecutive Frame
C4_Witness ==
    /\ EncoderDone
    /\ Len(message) = 8
    /\ Len(frame_list) = 2
    /\ frame_list[1][1] = 16

\* C5: in every multi-frame output the k-th Consecutive Frame after the First Frame
\* has first byte 0x20 | (k mod 16): the sequence numbers run 1, 2, ..., 15, 0, 1, ...
C5_SequenceNumbers ==
    (caller = "get_frames_from_message" /\ Len(frame_list) > 1)
    => \A k \in 1..(Len(frame_list) - 1) : frame_list[k + 1][1] = 32 + (k % 16)

\* Witness of C5: a 120-byte payload gave 17 Consecutive Frames, the 15th to 17th
\* with sequence numbers 15, 0, 1
C5_Witness ==
    /\ EncoderDone
    /\ Len(message) = 120
    /\ Len(frame_list) = 18
    /\ frame_list[16][1] = 47
    /\ frame_list[17][1] = 32
    /\ frame_list[18][1] = 33

\* C6: padding policy. With padding enabled every frame has exactly 8 bytes and every
\* byte after the PCI and the payload bytes equals the padding value; with padding
\* disabled a Single Frame has L + 1 bytes, the First Frame and every non-final
\* Consecutive Frame have 8 bytes and the final Consecutive Frame has 1 + (number of
\* payload bytes it carries) bytes.
C6_PaddingPolicy ==
    EncoderDone =>
        LET L == Len(message)
            n == Len(frame_list)
            \* number of PCI and payload bytes of frame i
            used(i) == IF L <= 7 THEN 1 + L
                       ELSE IF i = 1 THEN 8
                       ELSE 1 + CfPayloadLength(L, i - 1)
        IN  IF padding_value # None
            THEN \A i \in 1..n :
                    /\ Len(frame_list[i]) = 8
                    /\ \A j \in (used(i) + 1)..8 : frame_list[i][j] = padding_value
            ELSE \A i \in 1..n :
                    IF L <= 7 THEN Len(frame_list[i]) = L + 1
                    ELSE IF i < n THEN Len(frame_list[i]) = 8
                    ELSE Len(frame_list[i]) = 1 + CfPayloadLength(L, n - 1)

\* Witness of C6: without padding, the final Consecutive Frame of an 8-byte payload
\* has 3 bytes
C6_Witness ==
    /\ EncoderDone
    /\ padding_value = None
    /\ Len(message) = 8
    /\ Len(frame_list) = 2
    /\ Len(frame_list[2]) = 3

(***************************************************************************)
(* Properties of send_request / send_response and transmit (SpecSend).      *)
(***************************************************************************)
\* C2: send_request / send_response with a message longer than 4095 bytes fails with
\* the encoder's error before transmit is entered: no frame is sent on the bus and
\* nothing is received from it.
C2_TooLongNothingSent ==
    (caller \in {"send_request", "send_response"} /\ Len(message) > 4095)
    => /\ enc_pc \in {"idle", "raised"}
       /\ tx_pc = "idle"
       /\ bus_sent = <<>>
       /\ recv_count = 0

\* Witness of C2: send_response raised on a 4096-byte message
C2_Witness ==
    /\ caller = "send_response"
    /\ Len(message) = 4096
    /\ enc_pc = "raised"
    /\ bus_sent = <<>>

\* C3: length rejection is exact. get_frames_from_message fails if and only if the
\* payload is empty or longer than 4095 bytes; an empty payload never produces a
\* frame that send_request transmits.
C3_LengthRejectionExact ==
    /\ enc_pc \in {"returned", "raised"}
         => (enc_pc = "raised" <=> (Len(message) = 0 \/ Len(message) > 4095))
    /\ Len(message) = 0 => bus_sent = <<>>

\* The low nibble of the first byte of a received frame: its flow status
FlowStatusNibble(msg) == msg.data[1] % 16

\* A step of transmit in which bus.recv returned a message
TransmitGotMessage ==
    /\ tx_pc = "wait_fc"
    /\ recv_count' = recv_count + 1
    /\ tx_msg' # NoMessage

\* C7: in a multi-frame transmit, a frame received on arbitration_id_flow_control
\* whose flow status is Overflow (2) or any value other than CTS and Wait makes
\* transmit return at once; no frame is sent by that step or after it; if no
\* Consecutive Frame had been sent before, the First Frame is the only frame sent.
C7_AbortOnOverflow ==
    /\ [][(/\ TransmitGotMessage
           /\ tx_msg'.arbitration_id = TransmitFlowControlId(caller)
           /\ Len(tx_msg'.data) > 0
           /\ FlowStatusNibble(tx_msg') \notin {0, 1})
          => (tx_pc' = "returned" /\ bus_sent' = bus_sent)]_vars
    /\ [][tx_pc = "returned" => (tx_pc' = "returned" /\ bus_sent' = bus_sent)]_vars
    /\ [](tx_exit \in {"overflow", "unexpected_flow_status"}
            => (/\ tx_pc = "returned"
                /\ Len(bus_sent) = frame_index
                /\ frame_index = 1 => bus_sent[1].data = frame_list[1]))

\* Witness of C7: the first flow control after the First Frame carried FS = Overflow
\* and the First Frame is the only frame on the bus
C7_Witness ==
    /\ tx_pc = "returned"
    /\ tx_exit = "overflow"
    /\ recv_count = 1
    /\ Len(frame_list) > 2
    /\ Len(bus_sent) = 1
    /\ bus_sent[1].data = frame_list[1]

(***************************************************************************)
(* Properties of indication fed with arbitrary frames (SpecIndication).     *)
(***************************************************************************)
\* A step of indication in which bus.recv returned a message of the channel
IndicationGotFrame ==
    /\ ind_pc = "loop"
    /\ recv_count' = recv_count + 1
    /\ ind_msg' # NoMessage
    /\ ind_msg'.arbitration_id \in {arb_id_request, arb_id_response}
    /\ Len(ind_msg'.data) > 0

\* The PCI type (high nibble of the first byte) of the frame that step received
GotFrameType == ind_msg'.data[1] \div 16

\* No First Frame has been received yet / one has and reassembly is under way
IndicationIdleState == ind_pc = "loop" /\ message_length = 0 /\ ind_message = <<>>

Reassembling == ind_pc = "loop" /\ message_length > 0

\* C8: while indication reassembles a multi-frame message, a Consecutive Frame whose
\* sequence number is not the expected one aborts the reception: indication returns
\* without delivering a message.
C8_SnMismatchAborts ==
    [][(/\ Reassembling
        /\ IndicationGotFrame
        /\ GotFrameType = 2
        /\ ind_msg'.data[1] % 16 # (ind_sn + 1) % 16)
       => (ind_pc' \in {"returned", "raised"} /\ ind_result' = NoList)]_vars

\* C9: before any First Frame has been received, a Consecutive Frame or a Flow Control
\* frame on either channel arbitration ID is ignored: indication does not return,
\* delivers nothing, sends nothing and keeps waiting.
C9_IdleIgnoresCfAndFc ==
    [][(/\ IndicationIdleState
        /\ IndicationGotFrame
        /\ GotFrameType \in {2, 3})
       => (/\ ind_pc' = "loop"
           /\ ind_message' = ind_message
           /\ message_length' = message_length
           /\ bus_sent' = bus_sent)]_vars

\* The arbitration ID of the endpoint opposite to the one a frame arrived on
OppositeId(arbitration_id) ==
    IF arbitration_id = arb_id_request THEN arb_id_response ELSE arb_id_request

\* The bus log grew by exactly one frame: FS = CTS, BS = 0, STmin = 0, sent to id
OneCtsSentTo(id) ==
    /\ Len(bus_sent') = Len(bus_sent) + 1
    /\ SubSeq(bus_sent', 1, Len(bus_sent)) = bus_sent
    /\ bus_sent'[Len(bus_sent')].arbitration_id = id
    /\ bus_sent'[Len(bus_sent')].data = <<48, 0, 0, 0, 0, 0, 0, 0>>

\* C10: without first_frame_only, each received First Frame causes exactly one Flow
\* Control frame FS = CTS, BS = 0, STmin = 0 on the opposite endpoint's arbitration ID;
\* a Single Frame or a Consecutive Frame causes no frame to be sent.
C10_OneCtsPerFirstFrame ==
    /\ [][(IndicationGotFrame /\ ~first_frame_only /\ GotFrameType = 1)
          => OneCtsSentTo(OppositeId(ind_msg'.arbitration_id))]_vars
    /\ [][(IndicationGotFrame /\ GotFrameType \in {0, 2})
          => bus_sent' = bus_sent]_vars

\* Witness of C10: two First Frames were received, one on each arbitration ID, and
\* each was answered on the other one
C10_Witness ==
    /\ ~first_frame_only
    /\ Len(bus_sent) = 2
    /\ bus_sent[1].arbitration_id = arb_id_response
    /\ bus_sent[1].data = <<48, 0, 0, 0, 0, 0, 0, 0>>
    /\ bus_sent[2].arbitration_id = arb_id_request
    /\ bus_sent[2].data = <<48, 0, 0, 0, 0, 0, 0, 0>>
    /\ ind_msg.arbitration_id = arb_id_response
    /\ ind_msg.data[1] = 16

(***************************************************************************)
(* Properties of both uses of a channel (SpecChannel).                      *)
(***************************************************************************)
\* C11: frames from foreign arbitration IDs have no effect. In indication a frame
\* whose arbitration ID is neither arb_id_request nor arb_id_response leaves the
\* partial message, the expected sequence number and FF_DL unchanged, does not end
\* the call and sends nothing; in transmit a frame whose arbitration ID is not
\* arbitration_id_flow_control leaves the block and STmin state unchanged, does not
\* end the call and sends nothing.
C11_ForeignIdsIgnored ==
    /\ [][(/\ ind_pc = "loop"
           /\ recv_count' = recv_count + 1
           /\ ind_msg' # NoMessage
           /\ ind_msg'.arbitration_id \notin {arb_id_request, arb_id_response})
          => /\ UNCHANGED <<ind_pc, ind_message, ind_sn, message_length, ind_result>>
             /\ bus_sent' = bus_sent]_vars
    /\ [][(/\ TransmitGotMessage
           /\ tx_msg'.arbitration_id # TransmitFlowControlId(caller))
          => /\ UNCHANGED <<tx_pc, st_min, frame_index, number_of_frames_left_to_send,
                            number_of_frames_left_to_send_in_block, tx_sleeps>>
             /\ bus_sent' = bus_sent]_vars

\* Witness of C11: in the middle of a reassembly (FF_DL = 20, Consecutive Frame 1
\* taken) a First Frame arrived on a foreign arbitration ID and changed nothing
C11_Witness ==
    /\ ind_pc = "loop"
    /\ message_length = 20
    /\ ind_sn = 1
    /\ Len(ind_message) = 13
    /\ ind_msg.arbitration_id = ARB_ID_FOREIGN
    /\ ind_msg.data = <<16, 20, 1, 2, 3, 4, 5, 6>>
    /\ Len(bus_sent) = 1

C14_TypedOutcomes ==
    /\ (tx_pc = "returned"
          /\ tx_exit \in {"recv_timeout", "overflow", "unexpected_flow_status"})
        => tx_result # None
    /\ (ind_pc = "returned" /\ ind_exit = "invalid_frame_type")
        => ind_result # NoList

(***************************************************************************)
(* Properties of the programs that hold a bus in a with block (SpecScoped). *)
(***************************************************************************)
\* C13: every frame handed to the bus with an arbitration ID above 0x7FF carries
\* the extended-ID flag, whatever operation emitted it: IsoTp.send_message,
\* CanActions.send with any is_extended argument, bruteforce_arbitration_id, or
\* send_messages replaying a parsed CanMessage.
C13_ExtendedFlag ==
    \A i \in 1..Len(bus_sent) :
        bus_sent[i].arbitration_id > ARBITRATION_ID_MAX => bus_sent[i].is_extended_id

\* C18: bruteforce_arbitration_id and bruteforce_data always end, when the range is
\* exhausted and when they are stopped through bruteforce_stop, with the listener
\* list empty, and with callback_end called whenever one was supplied.
C18_BruteforceEnds ==
    bf_pc = "returned"
    => /\ listeners = <<>>
       /\ callback_end => Len(callback_end_calls) = 1

\* C19: cooperative stop. Once bruteforce_stop() has been called while the loop of
\* bruteforce_arbitration_id or bruteforce_data runs, the loop sends at most one
\* further frame and then returns: after that frame it never starts another
\* iteration.
C19_CooperativeStop ==
    stop_mark # None
    => /\ Len(bus_sent) <= stop_mark + 1
       /\ Len(bus_sent) = stop_mark + 1 => bf_pc \in {"sleep", "returned", "raised"}
       /\ bf_pc = "returned" => bf_exit \in {"stopped", "exhausted"}

\* Witness of C19: the stop came between two iterations of a sweep of four IDs; one
\* more frame went out and the call returned with two IDs not probed
C19_Witness ==
    /\ bf_op = "bruteforce_arbitration_id"
    /\ bf_pc = "returned"
    /\ bf_exit = "stopped"
    /\ stop_mark = 1
    /\ Len(bus_sent) = 2
    /\ bf_value = bf_min + 1
    /\ bf_max = bf_min + 3

\* C20: scoped acquisition. When a `with CanActions(...)` or `with IsoTp(...)` block
\* has been left, by a normal return or by an exception raised in the body, the bus
\* has been shut down; for a CanActions with an enabled notifier the listeners have
\* been cleared and the notifier stopped before the bus is shut down.
C20_ScopedAcquisition ==
    /\ [](with_pc = "left" => bus_state = "shutdown")
    /\ [][(bus_state = "open" /\ bus_state' = "shutdown")
          => /\ with_pc' = "left"
             /\ notifier_enabled => (listeners = <<>> /\ notifier = "None")]_vars
    /\ [][(with_pc = "body" /\ with_pc' # "body") => with_pc' = "exit"]_vars
    /\ [][(with_pc = "exit" /\ with_pc' # "exit")
          => (with_pc' = "left" \/ (notifier_enabled /\ with_pc' = "notifier_stop"))]_vars

\* Witness of C20: a bruteforce was interrupted by an exception while its listener
\* was installed; the block was left with the listeners cleared, the notifier
\* stopped and the bus shut down
C20_Witness ==
    /\ with_pc = "left"
    /\ with_exc = "KeyboardInterrupt"
    /\ notifier_enabled
    /\ bf_pc = "raised"
    /\ Len(bus_sent) = 2
    /\ listeners = <<>>
    /\ notifier = "None"
    /\ bus_state = "shutdown"

(***************************************************************************)
(* Properties of the XCP memory dump (SpecXcpDump).                         *)
(***************************************************************************)
\* The four low bytes of an address given by its base-256 digits, least
\* significant byte first
LsbFirst(digits) ==
    <<IF Len(digits) >= 1 THEN digits[Len(digits)] ELSE 0,
      IF Len(digits) >= 2 THEN digits[Len(digits) - 1] ELSE 0,
      IF Len(digits) >= 3 THEN digits[Len(digits) - 2] ELSE 0,
      IF Len(digits) >= 4 THEN digits[Len(digits) - 3] ELSE 0>>

MsbFirst(digits) ==
    <<LsbFirst(digits)[4], LsbFirst(digits)[3], LsbFirst(digits)[2], LsbFirst(digits)[1]>>

\* A step in which the listener named handler was handed a positive reply (first
\* byte 0xFF) from the receive arbitration ID
GotPositiveReply(handler) ==
    /\ listeners = <<handler>>
    /\ xcp_rx' = xcp_rx + 1
    /\ xcp_msg'.arbitration_id = rcv_arb_id
    /\ xcp_msg'.data[1] = 255

\* C15: Set MTA byte order. After the first positive Connect reply, the frame sent
\* is [0xF6, 0, 0, 0, a0, a1, a2, a3] with the 32-bit start address least
\* significant byte first when bit 0 of the reply's byte 2 is 0 (0x1FFFB000 gives
\* 0x00, 0xB0, 0xFF, 0x1F), and most significant byte first when that bit is 1.
C15_SetMtaByteOrder ==
    [][(GotPositiveReply("handle_connect_reply") /\ Len(bus_sent) = 1)
       => /\ Len(bus_sent') = 2
          /\ bus_sent'[2].data =
                <<246, 0, 0, 0>> \o (IF xcp_msg'.data[3] % 2 = 0
                                     THEN LsbFirst(start_address)
                                     ELSE MsbFirst(start_address))]_vars

\* The upload requests sent so far: the frames after Connect and Set MTA
UploadRequests == IF Len(bus_sent) <= 2 THEN <<>> ELSE SubSeq(bus_sent, 3, Len(bus_sent))

\* ceil(len / 7)
ExpectedUploads(len) == (len + 6) \div 7

\* The j-th upload request is [0xF5, n] with n = min(7, bytes remaining before it)
UploadRequestsWellFormed ==
    \A j \in 1..Len(UploadRequests) :
        UploadRequests[j].data =
            <<245, IF xcp_length - 7 * (j - 1) < 7 THEN xcp_length - 7 * (j - 1) ELSE 7>>

\* An upload reply appends its payload bytes, cut to the bytes still missing
UploadReplyAppended ==
    GotPositiveReply("handle_upload_reply")
    => LET missing == xcp_length - Len(xcp_output)
       IN  xcp_output' = xcp_output \o SubSeq(xcp_msg'.data, 2,
                                              1 + (IF missing < 7 THEN missing ELSE 7))

\* C16: upload loop. When the slave acknowledges Set MTA and answers every upload
\* request with one positive 8-byte reply, the dump sends exactly ceil(length / 7)
\* upload requests [0xF5, n] with n = min(7, bytes remaining before that request),
\* outputs the reply payload bytes in order, outputs exactly length bytes in
\* total, and then reports completion.
C16_UploadLoop ==
    /\ [](slave = "nominal"
          => /\ UploadRequestsWellFormed
             /\ Len(UploadRequests) <= ExpectedUploads(xcp_length)
             /\ Len(xcp_output) <= xcp_length
             /\ dump_complete <=> (xcp_rx = 2 + ExpectedUploads(xcp_length))
             /\ dump_complete
                => /\ Len(xcp_output) = xcp_length
                   /\ Len(UploadRequests) = ExpectedUploads(xcp_length))
    /\ [][slave = "nominal" => UploadReplyAppended]_vars

\* C16 as amended: the same, for a dump of at least one byte.
C16_UploadLoopNonEmpty ==
    /\ []((slave = "nominal" /\ xcp_length >= 1)
          => /\ UploadRequestsWellFormed
             /\ Len(UploadRequests) <= ExpectedUploads(xcp_length)
             /\ Len(xcp_output) <= xcp_length
             /\ dump_complete <=> (xcp_rx = 2 + ExpectedUploads(xcp_length))
             /\ dump_complete
                => /\ Len(xcp_output) = xcp_length
                   /\ Len(UploadRequests) = ExpectedUploads(xcp_length))
    /\ [][(slave = "nominal" /\ xcp_length >= 1) => UploadReplyAppended]_vars

\* Witness of C16: a dump of 15 bytes took the requests [0xF5, 7], [0xF5, 7] and
\* [0xF5, 1] and is complete
C16_Witness ==
    /\ slave = "nominal"
    /\ xcp_length = 15
    /\ dump_complete
    /\ Len(bus_sent) = 5
    /\ bus_sent[3].data = <<245, 7>>
    /\ bus_sent[5].data = <<245, 1>>
    /\ Len(xcp_output) = 15
    /\ xcp_rx = 5

\* C17: a reply from the receive arbitration ID whose first byte is 0xFE, at any
\* stage, terminates the dump in the Error state: after it no further request is
\* sent, and the dump does not end by running into the idle timeout.
C17_ErrorTerminates ==
    /\ [][xcp_errors > 0 => bus_sent' = bus_sent]_vars
    /\ [](xcp_errors > 0 => xcp_end # "idle_timeout")

(***************************************************************************)
(* Properties of CanActions.send's argument checks (SpecScoped).            *)
(***************************************************************************)
\* A step of the body that is a CanActions.send call with new arguments
SendCalled ==
    /\ program = "send"
    /\ with_pc = "body"
    /\ send_args' # <<>>
    /\ send_args' # send_args \/ bus_sent' # bus_sent

\* C21: CanActions.send rejects a payload of more than 8 bytes with an
\* invalid-length error before anything is handed to the bus, and likewise rejects
\* a call with no arbitration ID (neither argument nor instance default); in both
\* cases no frame is transmitted.
C21_SendRejects ==
    /\ [][SendCalled
          => /\ Len(send_args'[1]) > 8
                => (with_exc' = "IndexError" /\ with_pc' = "exit" /\ bus_sent' = bus_sent)
             /\ (Len(send_args'[1]) <= 8 /\ send_args'[2] = None /\ self_arb_id = None)
                => (with_exc' = "ValueError" /\ with_pc' = "exit" /\ bus_sent' = bus_sent)]_vars
    /\ [](program = "send"
          => \A i \in 1..Len(bus_sent) :
                 /\ Len(bus_sent[i].data) <= 8
                 /\ bus_sent[i].arbitration_id # None)

\* Witness of C21: after one frame was sent, a call with a 9-byte payload raised
\* and the bus still holds the one frame
C21_Witness ==
    /\ program = "send"
    /\ with_exc = "IndexError"
    /\ Len(send_args[1]) = 9
    /\ Len(bus_sent) = 1
    /\ Len(bus_sent[1].data) = 8

(***************************************************************************)
(* Properties of the UDS orchestration (SpecUds).                           *)
(***************************************************************************)
\* The IDs heard while the probe (phase 1) or the repeated probe (phase 2) sent on
\* client_id was drained
HeardAfterProbe(client_id, phase) ==
    UNION {uds_log[i].got : i \in {j \in 1..Len(uds_log) :
                                      /\ uds_log[j].key = client_id
                                      /\ uds_log[j].phase = phase}}

\* The pairs the sweep has to report
AnsweredPairs ==
    {p \in (uds_args.min_id..uds_args.max_id) \X ResponderIds :
        /\ p[2] \in HeardAfterProbe(p[1], 1)
        /\ p[2] # p[1]
        /\ p[2] \notin uds_args.blacklist
        /\ uds_args.verify => p[2] \in HeardAfterProbe(p[1], 2)}

\* C22: uds_discovery over [min_id, max_id] returns exactly the pairs (client_id,
\* response_id) such that a frame from response_id (not the probing ID itself, not
\* a blacklisted ID) answered the Diagnostic Session Control probe sent on
\* client_id and, when verify is set, answered the repeated probe too; the list is
\* in ascending client_id order, is empty when nothing responds, and never
\* contains a pair whose response_id is in the blacklist.
C22_DiscoveryPairs ==
    (uds_op = "uds_discovery" /\ uds_pc = "returned")
    => /\ {uds_result[i] : i \in 1..Len(uds_result)} = AnsweredPairs
       /\ Len(uds_result) = Cardinality(AnsweredPairs)
       /\ \A i \in 1..Len(uds_result), j \in 1..Len(uds_result) :
              i < j => uds_result[i][1] <= uds_result[j][1]
       /\ (\A i \in 1..Len(uds_log) : uds_log[i].got = {}) => uds_result = <<>>
       /\ \A i \in 1..Len(uds_result) : uds_result[i][2] \notin uds_args.blacklist

\* Witness of C22: the sweep 0x3009..0x3013 with verify set found the mock ECU
C22_Witness ==
    /\ uds_op = "uds_discovery"
    /\ uds_pc = "returned"
    /\ ecu = "mock"
    /\ uds_args.min_id = 12297
    /\ uds_args.max_id = 12307
    /\ uds_args.verify
    /\ uds_args.blacklist = {}
    /\ uds_result = <<<<12302, 12303>>>>

\* The answer the exchange for sid ended with
AnswerTo(sid) ==
    LET i == CHOOSE j \in 1..Len(uds_log) : uds_log[j].key = sid
    IN  uds_log[i].got

\* The SIDs answered positively or with an NRC other than serviceNotSupported
AnsweredServices ==
    {sid \in uds_args.min_id..uds_args.max_id :
        /\ AnswerTo(sid) # NoList
        /\ \/ AnswerTo(sid)[1] = sid + 64
           \/ (AnswerTo(sid)[1] = 127 /\ AnswerTo(sid)[3] # 17)}

\* C23: service_discovery over SIDs [min_id, max_id] returns, in ascending order,
\* exactly the SIDs for which the ECU answered with a positive response
\* (SID | 0x40) or with a negative response whose NRC is not serviceNotSupported
\* (0x11); a SID answered with NRC 0x11, or not answered within the timeout, is
\* not returned (an ECU supporting only 0x10 and 0x11 swept over 0x09..0x13 gives
\* [0x10, 0x11]; a range with no supported SID gives []).
C23_SupportedServices ==
    (uds_op = "service_discovery" /\ uds_pc = "returned")
    => /\ Len(uds_log) = IF uds_args.max_id < uds_args.min_id THEN 0
                         ELSE uds_args.max_id - uds_args.min_id + 1
       /\ {uds_result[i] : i \in 1..Len(uds_result)} = AnsweredServices
       /\ \A i \in 1..Len(uds_result), j \in 1..Len(uds_result) :
              i < j => uds_result[i] < uds_result[j]
       /\ (ecu = "mock" /\ uds_args.min_id = 9 /\ uds_args.max_id = 19)
          => uds_result = <<16, 17>>
       /\ AnsweredServices = {} => uds_result = <<>>

\* Witness of C23: the sweep 0x09..0x13 of the mock ECU returned [0x10, 0x11]
C23_Witness ==
    /\ uds_op = "service_discovery"
    /\ uds_pc = "returned"
    /\ ecu = "mock"
    /\ uds_args.min_id = 9
    /\ uds_args.max_id = 19
    /\ Len(uds_log) = 11
    /\ uds_result = <<16, 17>>

\* A negative response with NRC 0x78
IsNrc78(response) ==
    /\ response # NoList
    /\ Len(response) = 3
    /\ response[1] = 127
    /\ response[3] = 120

\* C24: a negative response [0x7F, SID, 0x78] is never returned to the caller; the
\* exchange keeps waiting (for a bounded number of pending responses) and returns
\* the first later response that is not a 0x78 negative response; a negative
\* response with any other NRC is returned to the caller unchanged.
C24_ResponsePending ==
    uds_op = "ecu_reset"
    => /\ uds_pending <= MAX_PENDING
       /\ \A i \in 1..(Len(uds_rx) - 1) : IsNrc78(uds_rx[i])
       /\ (uds_pc = "wait" /\ uds_rx # <<>>) => IsNrc78(uds_rx[Len(uds_rx)])
       /\ uds_pc = "returned"
          => /\ ~IsNrc78(uds_result)
             /\ uds_rx # <<>>
             /\ IF IsNrc78(uds_rx[Len(uds_rx)])
                THEN uds_result = NoList /\ Len(uds_rx) = MAX_PENDING + 1
                ELSE uds_result = uds_rx[Len(uds_rx)]

\* Witness of C24: two responsePending answers were waited through and the
\* subFunctionNotSupported response that followed was returned as it came
C24_Witness ==
    /\ uds_op = "ecu_reset"
    /\ uds_pc = "returned"
    /\ uds_rx = <<<<127, 17, 120>>, <<127, 17, 120>>, <<127, 17, 18>>>>
    /\ uds_result = <<127, 17, 18>>

(***************************************************************************)
(* Properties of flow control in transmit (SpecSend).                       *)
(***************************************************************************)
\* msg arrived on the arbitration ID on which the call expects flow control
OnFlowControlId(msg) ==
    msg.arbitration_id = (IF caller = "send_request" THEN ARB_ID_RESPONSE
                          ELSE ARB_ID_REQUEST)

\* msg is a Flow Control frame (PCI type 3) with the flow status fs
IsFlowControl(msg, fs) ==
    /\ OnFlowControlId(msg)
    /\ Len(msg.data) >= 3
    /\ msg.data[1] = 48 + fs

\* A step in which transmit received a message from the bus
TransmitReceived ==
    /\ tx_pc = "wait_fc"
    /\ recv_count' = recv_count + 1
    /\ tx_msg' # NoMessage

\* A step in which transmit sent a Consecutive Frame
ConsecutiveFrameSent ==
    /\ Len(bus_sent) >= 1
    /\ tx_pc \in {"wait_fc", "send_block"}
    /\ Len(bus_sent') = Len(bus_sent) + 1

\* C25: block handling in a multi-frame transmit. After each CTS flow control with
\* block size BS, transmit sends exactly min(BS, frames remaining) Consecutive
\* Frames (all remaining ones when BS = 0) and sends no further Consecutive Frame
\* until another CTS has been received; over the whole call the frames are sent in
\* list order, each at most once, and on normal completion exactly len(frames)
\* frames have been sent.
C25_BlockHandling ==
    /\ [](/\ Len(bus_sent) <= Len(frame_list)
          /\ \A i \in 1..Len(bus_sent) : bus_sent[i].data = frame_list[i]
          /\ tx_exit = "complete" => Len(bus_sent) = Len(frame_list)
          /\ tx_pc = "send_block" => number_of_frames_left_to_send_in_block > 0)
    /\ [][(TransmitReceived /\ IsFlowControl(tx_msg', 0))
          => /\ tx_pc' = "send_block"
             /\ number_of_frames_left_to_send_in_block' =
                    (IF tx_msg'.data[2] = 0 \/ tx_msg'.data[2] > Len(frame_list) - Len(bus_sent)
                     THEN Len(frame_list) - Len(bus_sent)
                     ELSE tx_msg'.data[2])]_vars
    /\ [][ConsecutiveFrameSent
          => /\ IsFlowControl(tx_msg, 0)
             /\ number_of_frames_left_to_send_in_block' =
                    number_of_frames_left_to_send_in_block - 1
             /\ number_of_frames_left_to_send_in_block' = 0 => tx_pc' # "send_block"]_vars

\* C26: flow-control wait in transmit. If a receive on the bus returns nothing
\* within N_Bs while transmit waits for flow control, transmit aborts and sends
\* no further frame; a flow control with FS = Wait sends no Consecutive Frame and
\* leaves transmit waiting for the next flow control.
C26_FlowControlWait ==
    /\ [][(tx_pc = "wait_fc" /\ recv_count' = recv_count + 1 /\ tx_msg' = NoMessage)
          => /\ tx_pc' = "returned"
             /\ tx_result' = None
             /\ bus_sent' = bus_sent]_vars
    /\ [][tx_pc = "returned" => (tx_pc' = "returned" /\ bus_sent' = bus_sent)]_vars
    /\ [][(TransmitReceived /\ IsFlowControl(tx_msg', 1))
          => /\ tx_pc' = "wait_fc"
             /\ bus_sent' = bus_sent
             /\ frame_index' = frame_index
             /\ number_of_frames_left_to_send' = number_of_frames_left_to_send
             /\ number_of_frames_left_to_send_in_block' = 0]_vars

\* Witness of C26: after the First Frame a Wait with STmin 127 arrived, then the
\* bus stayed silent for N_Bs and transmit gave up with the First Frame alone sent
C26_Witness ==
    /\ tx_pc = "returned"
    /\ tx_exit = "recv_timeout"
    /\ recv_count = 2
    /\ st_min = 127
    /\ Len(frame_list) = 5
    /\ Len(bus_sent) = 1

\* C27: every call of transmit eventually returns, whatever the bus delivers: the
\* wait for flow control cannot be prolonged without bound by an endless stream
\* of FC Wait frames or of frames from other arbitration IDs, each arriving
\* within N_Bs of the previous one.
C27_TransmitReturns == (tx_pc \in {"wait_fc", "send_block"}) ~> (tx_pc = "returned")

\* The PCI type (high nibble of byte 0) of the frame in msg, None for an empty
\* frame
PciType(msg) == IF Len(msg.data) = 0 THEN None ELSE msg.data[1] \div 16

\* C28: in a multi-frame transmit, a Consecutive Frame is sent only after a
\* genuine Flow Control frame (PCI high nibble 3) with FS = CTS was received on
\* arbitration_id_flow_control since the previous block; a frame on that ID with
\* another PCI type (e.g. a Single Frame 0x0x or First Frame 0x1x whose low nibble
\* happens to be 0) never releases Consecutive Frames.
C28_GenuineFlowControl ==
    /\ [][(TransmitReceived /\ OnFlowControlId(tx_msg') /\ PciType(tx_msg') # 3)
          => /\ tx_pc' # "send_block"
             /\ number_of_frames_left_to_send_in_block' = 0]_vars
    /\ [][(tx_pc = "send_block" /\ Len(bus_sent') > Len(bus_sent))
          => /\ PciType(tx_msg) = 3
             /\ tx_msg.data[1] % 16 = 0
             /\ OnFlowControlId(tx_msg)]_vars

FirstFrameOnlyReceived ==
    /\ ind_pc = "loop"
    /\ first_frame_only
    /\ recv_count' = recv_count + 1
    /\ ind_msg'.arbitration_id \in {ARB_ID_REQUEST, ARB_ID_RESPONSE}
    /\ Len(ind_msg'.data) > 0
    /\ ind_msg'.data[1] \div 16 = 1

\* C30: indication with first_frame_only set, on receiving a First Frame, sends
\* exactly one frame, a Flow Control with FS = Overflow (0x32) on the opposite
\* endpoint's arbitration ID, and ends the call in that step without waiting for
\* a Consecutive Frame; for a full 8-byte First Frame it returns the frame's 6
\* payload bytes.  No Flow Control with FS = CTS (0x30) is ever sent by such a
\* call.
C30_FirstFrameOnly ==
    /\ [][FirstFrameOnlyReceived
          => /\ Len(bus_sent') = Len(bus_sent) + 1
             /\ bus_sent'[Len(bus_sent')].data = <<50, 0, 0, 0, 0, 0, 0, 0>>
             /\ bus_sent'[Len(bus_sent')].arbitration_id
                    = OppositeId(ind_msg'.arbitration_id)
             /\ ind_pc' # "loop"
             /\ (Len(ind_msg'.data) = 8
                   => /\ ind_pc' = "returned"
                      /\ Len(ind_result') = 6
                      /\ \A i \in 1..6 : ind_result'[i] = ind_msg'.data[i + 2])]_vars
    /\ [](first_frame_only
            => /\ Len(bus_sent) <= 1
               /\ \A i \in 1..Len(bus_sent) : bus_sent[i].data[1] # 48)

\* A first_frame_only call has returned the 6 payload bytes of a First Frame
\* that came from the response ID, after an Overflow flow control on the request
\* ID
C30_Witness ==
    /\ first_frame_only
    /\ ind_pc = "returned"
    /\ ind_exit = "first_frame_only"
    /\ ind_msg.arbitration_id = ARB_ID_RESPONSE
    /\ ind_msg.data = <<16, 20, 1, 2, 3, 4, 5, 6>>
    /\ ind_result = <<1, 2, 3, 4, 5, 6>>
    /\ Len(bus_sent) = 1
    /\ bus_sent[1].arbitration_id = ARB_ID_REQUEST
    /\ bus_sent[1].data[1] = 50

(***************************************************************************)
(* Properties of the XCP memory dump's sequencing and idle timer            *)
(* (SpecXcpDump, SpecXcpDumpOn).                                            *)
(***************************************************************************)
\* The notifier thread has just handed the installed listener a positive reply
\* (first byte 0xFF) from the receive arbitration ID
AcceptedReply ==
    /\ xcp_rx' = xcp_rx + 1
    /\ xcp_msg'.arbitration_id = rcv_arb_id
    /\ xcp_msg'.data[1] = 255

\* C31: request ordering of the XCP memory dump. Connect ([0xFF]) is the first
\* frame sent; the second frame is Set MTA (0xF6) and every later one an upload
\* request (0xF5); Set MTA is sent only in answer to a positive reply from the
\* receive ID that came after Connect was sent, and an upload request only in
\* answer to a positive reply that came after Set MTA was sent; completion is
\* reported only after an upload request was sent and answered. This holds
\* whatever frames arrive, and whenever they arrive.
C31_RequestOrdering ==
    /\ [](program = "xcp_memory_dump"
           => /\ Len(bus_sent) >= 1 => bus_sent[1].data = <<255>>
              /\ Len(bus_sent) >= 2 => bus_sent[2].data[1] = 246
              /\ \A i \in 3..Len(bus_sent) : bus_sent[i].data[1] = 245
              /\ dump_complete => (Len(bus_sent) >= 3 /\ xcp_rx >= 3)
              /\ xcp_end = "complete" => dump_complete)
    /\ [][(program = "xcp_memory_dump" /\ Len(bus_sent') > Len(bus_sent)
           /\ bus_sent'[Len(bus_sent')].data # <<255>>)
          => /\ AcceptedReply
             /\ Len(bus_sent) >= 1
             /\ Len(bus_sent') = Len(bus_sent) + 1]_vars

\* C32: idle timer of the XCP memory dump. Every accepted reply (a 0xFF frame
\* from the receive ID, whichever listener is installed: Connect reply, Set MTA
\* acknowledgement or upload reply) sets the idle timeout back to 3 s, and the
\* dump reports the idle-timeout error exactly when the timer has run out and the
\* dump is not complete.
C32_IdleTimerReset ==
    /\ [][(program = "xcp_memory_dump" /\ AcceptedReply)
          => idle_timeout' = IDLE_TIMEOUT_STEPS]_vars
    /\ [][(program = "xcp_memory_dump" /\ xcp_pc = "report")
          => (xcp_end' = "idle_timeout" <=> (idle_timeout <= 0 /\ ~dump_complete))]_vars

\* C33: xcp_memory_dump terminates for every dump length and whatever the slave
\* sends: the main thread always reaches the end of the with block, with the dump
\* complete or with the idle-timeout error. The idle timer is raised only by a
\* reply that takes 7 off the remaining byte count, and the dump is complete as
\* soon as that count is below 1, so an incomplete dump has at least one byte
\* left (or has not had a reply yet) and the timer can be raised only finitely
\* often.
C33_DumpTerminates ==
    /\ (xcp_pc \in {"start", "connect", "loop", "sleep", "store", "report"})
          ~> (xcp_pc = "done" /\ xcp_end \in {"complete", "idle_timeout"})
    /\ [][idle_timeout' > idle_timeout
          => /\ bytes_left' = bytes_left - 7
             /\ bytes_left' < 1 => dump_complete']_vars
    /\ [](program = "xcp_memory_dump"
           => (~dump_complete => (bytes_left >= 1 \/ bytes_left = xcp_length)))

\* Witness of C33: a dump of 8 bytes ended with the idle timeout after the timer
\* had been set back by an upload reply, with a byte still missing and the bus
\* busy to the end
C33_Witness ==
    /\ xcp_pc = "done"
    /\ xcp_end = "idle_timeout"
    /\ xcp_length = 8
    /\ bytes_left = 1
    /\ Len(xcp_output) = 7
    /\ xcp_rx = MaxXcpRecv
    /\ slave = "any"

\* C34: the idle timer is shared by the notifier thread (handle_upload_reply sets
\* it to 3.0) and the main loop (idle_timeout -= 0.5). No interleaving loses a
\* reset: what the main loop stores is the current timer less 0.5, never a value
\* derived from the timer as it was before a reset, so the timer is not below
\* 2.5 s right after the first store that follows an accepted upload reply.
C34_NoLostReset ==
    [][(program = "xcp_memory_dump" /\ xcp_pc = "store" /\ xcp_pc' = "loop")
       => idle_timeout' = idle_timeout - 1]_vars

(***************************************************************************)
(* Properties of the bruteforce sweeps (SpecScoped, SpecDataNew).           *)
(***************************************************************************)
\* C35: bruteforce_arbitration_id. The frames sent are, in order, one for each
\* arbitration ID min_id, min_id + 1, ...; when the sweep ends without a stop the
\* last of them is max_id, so every ID of [min_id, max_id] was probed exactly once
\* in ascending order; in the step that sends the frame for an ID the listener
\* list is exactly [callback_factory(id)] for that ID. With min_id > max_id no
\* frame is sent, the listeners are not touched and on_complete, when given, is
\* called once with the invalid-range message.
C35_ArbitrationIdSweep ==
    /\ []((program = "bruteforce" /\ bf_op = "bruteforce_arbitration_id")
           => /\ \A i \in 1..Len(bus_sent) :
                     /\ bus_sent[i].arbitration_id = bf_min + i - 1
                     /\ bus_sent[i].arbitration_id <= bf_max
                     /\ bus_sent[i].data = bf_data
              /\ bf_exit = "exhausted" => Len(bus_sent) = bf_max - bf_min + 1
              /\ (bf_pc = "returned" /\ bf_min > bf_max)
                    => /\ bf_exit = "invalid_range"
                       /\ bus_sent = <<>>
                       /\ callback_end
                             => callback_end_calls = <<"Invalid range: min > max">>
              /\ (bf_pc = "returned" /\ bf_min <= bf_max /\ stop_mark = None)
                    => bf_exit = "exhausted")
    /\ [][(program = "bruteforce" /\ bf_op' = "bruteforce_arbitration_id")
          => /\ Len(bus_sent') > Len(bus_sent)
                  => /\ Len(bus_sent') = Len(bus_sent) + 1
                     /\ listeners' = <<bus_sent'[Len(bus_sent')].arbitration_id>>
             /\ bf_exit' = "invalid_range"
                  => (listeners' = listeners /\ bus_sent' = bus_sent)]_vars

\* Witness of C35: the sweep of 0x7FE..0x801 has ended unstopped, with its four
\* frames sent
C35_Witness ==
    /\ bf_op = "bruteforce_arbitration_id"
    /\ bf_pc = "returned"
    /\ bf_exit = "exhausted"
    /\ stop_mark = None
    /\ Len(bus_sent) = 4
    /\ bus_sent[1].arbitration_id = ARBITRATION_ID_MAX - 1
    /\ bus_sent[4].arbitration_id = ARBITRATION_ID_MAX + 2

\* C36: once bruteforce_stop() has been called during a run of
\* bruteforce_data_new, at most one further message is sent: the enumeration
\* of the remaining byte combinations is abandoned.
C36_DataNewStop ==
    (program = "bruteforce_data_new" /\ stop_mark # None)
        => Len(bus_sent) <= stop_mark + 1

\* b to the power e
RECURSIVE Pow(_, _)
Pow(b, e) == IF e = 0 THEN 1 ELSE b * Pow(b, e - 1)

\* The value of the j-th of k listed positions in the n-th of the assignments
\* of count values from lo upwards, in lexicographic order, first position most
\* significant
LexValue(n, j, k, count, lo) == lo + (((n - 1) \div Pow(count, k - j)) % count)

\* No byte position is listed twice
DistinctPositions(idxs) ==
    \A i, j \in 1..Len(idxs) : idxs[i] = idxs[j] => i = j

\* C37: bruteforce_data_new over k distinct byte positions and the range
\* [min_value, max_value] sends (max_value - min_value + 1)^k messages, the
\* n-th carrying the n-th assignment of range values to the positions in
\* lexicographic order (first listed position most significant, last varying
\* fastest) and the original values in all bytes that are not listed.
C37_CartesianProduct ==
    (program = "bruteforce_data_new" /\ bf_pc # "idle"
        /\ DistinctPositions(bruteforce_indices))
        => LET k == Len(bruteforce_indices)
               count == bf_max - bf_min + 1
           IN  /\ Len(bus_sent) <= Pow(count, k)
               /\ bf_pc = "returned" => Len(bus_sent) = Pow(count, k)
               /\ \A n \in 1..Len(bus_sent) :
                     /\ Len(bus_sent[n].data) = Len(DataNewData)
                     /\ \A p \in 1..Len(DataNewData) :
                           bus_sent[n].data[p] =
                               IF \E j \in 1..k : bruteforce_indices[j] = p - 1
                               THEN LexValue(n,
                                        CHOOSE j \in 1..k : bruteforce_indices[j] = p - 1,
                                        k, count, bf_min)
                               ELSE DataNewData[p]

\* Two positions and two values: all four messages were sent, the stop flag
\* having been cleared on the way
C37_Witness ==
    /\ program = "bruteforce_data_new"
    /\ bf_pc = "returned"
    /\ bruteforce_indices = <<2, 0>>
    /\ bf_min = 0
    /\ bf_max = 1
    /\ Len(bus_sent) = 4
    /\ bus_sent[2].data = <<1, 16, 0>>
    /\ bus_sent[3].data = <<0, 16, 1>>
    /\ stop_mark # None

(***************************************************************************)
(* Properties of the XCP discoveries (SpecDiscovery, SpecCommands)          *)
(***************************************************************************)
\* A frame whose first byte is 0xFF and that has a later byte other than zero
PositiveHitFrame(msg) ==
    /\ Len(msg.data) >= 2
    /\ msg.data[1] = 255
    /\ \E j \in 2..Len(msg.data) : msg.data[j] > 0

\* A frame whose first byte is 0xFE
BadReplyFrame(msg) == Len(msg.data) >= 1 /\ msg.data[1] = 254

C39_HitNamesProbe ==
    program = "xcp_discovery" =>
        \A i \in 1..Len(xd_reports) :
            xd_reports[i].probe # None => xd_reports[i].arb_id = xd_reports[i].probe

\* Requests go out in pairs: Connect, then the next command of the table
CommandsInTableOrder ==
    \A i \in 1..Len(bus_sent) :
        /\ bus_sent[i].arbitration_id = send_arb_id
        /\ IF i % 2 = 1 THEN bus_sent[i].data = <<255, 0, 0, 0, 0, 0, 0, 0>>
           ELSE bus_sent[i].data = <<255 - (i \div 2), 0, 0, 0, 0, 0, 0, 0>>

\* A command is about to be sent or has just been sent: its Connect was
\* answered by a frame from the receive ID
CommandAfterConnectReply ==
    cd_pc \in {"command_send", "command_wait"} => connect_reply

\* When the discovery is over, every command of the table has been sent
EveryCommandProbed ==
    with_pc # "body" => Len(bus_sent) = 2 * MaxCommands

\* Each verdict is drawn from the reply to the command it is printed for
VerdictFromOwnReply ==
    \A i \in 1..Len(cd_reports) :
        /\ cd_reports[i].answers \in 1..Len(bus_sent)
        /\ bus_sent[cd_reports[i].answers].data[1] = cd_reports[i].cmd
        /\ cd_reports[i].supported <=> cd_reports[i].data[1] # 254

\* A command timeout is reported only for a command that got no reply
TimeoutMeansNoReply ==
    cd_error = "command_timeout" =>
        /\ cd_waited = 3
        /\ \A i \in 1..Len(cd_reports) : cd_reports[i].cmd # 255 - cd_index

\* C40: command discovery probes every command of the table other than
\* Connect, in table order, each after a Connect that a frame from the receive
\* ID answered within 3 s; a command is reported supported exactly if its reply
\* from the receive ID does not start with 0xFE; a command without a reply
\* within 3 s is reported as a command timeout.
C40_CommandDiscovery ==
    program = "xcp_commands" =>
        /\ CommandsInTableOrder
        /\ CommandAfterConnectReply
        /\ EveryCommandProbed
        /\ VerdictFromOwnReply
        /\ TimeoutMeansNoReply

====
